---- MODULE Spec2Model ----
(***************************************************************************)
(* Verdict aggregation and response normalisation of the chatbot           *)
(* verification endpoint of ProjectAegis (src/backend/main.py).            *)
(*                                                                         *)
(* Python strings are modelled as sequences of one-character strings, so   *)
(* that strip, lower, startswith, slicing, the regular expressions and the *)
(* JSON parser are computed character by character.  An optional value     *)
(* (a dict key that may be missing or None) is a record [present, s].      *)
(***************************************************************************)
EXTENDS Integers, Sequences, FiniteSets, TLC

VARIABLES
    results,            \* chatbot_verify: the list results
    verification_type,  \* chatbot_verify: processed_input["verification_type"]
    pc,                 \* position in the tail of chatbot_verify
    normalized,         \* _aggregate_verdicts: the list normalized
    overall,            \* chatbot_verify: overall
    best_msg,           \* chatbot_verify: best_msg
    json_tried,         \* chatbot_verify: not nonjson, once computed
    extracted_message,  \* chatbot_verify: extracted_message
    final_message,      \* chatbot_verify: final_message
    status,             \* 0 while running, 200 response returned, 500 HTTPException
    request,            \* chatbot_verify: processed_input
    idx,                \* chatbot_verify: position in files_list or urls_list
    temp_files_to_cleanup,  \* chatbot_verify: temp_files_to_cleanup
    flushes,            \* the lists handed to cleanup_temp_files, in order
    disk,               \* the temporary files and directories that exist
    calls,              \* the verifier and tool calls made, in order
    response,           \* the fields of the response body
    yt_env,             \* _verify_youtube_video: what the call meets
    yt_result,          \* _verify_youtube_video: what the call gives back
    info,               \* _extract_media_from_url: info
    extracted_media,    \* _extract_media_from_url: what the call gives back
    video,              \* per request: the YouTube video of its URL
    temp_subs,          \* the directory temp_subs and the files in it
    thread_pc,          \* per request: position in get_youtube_transcript_ytdlp
    subtitle_file,      \* get_youtube_transcript_ytdlp: subtitle_file
    captions,           \* _verify_youtube_video: captions
    outcome             \* per request: the result of _verify_youtube_video

vars == <<results, verification_type, pc, normalized, overall, best_msg,
          json_tried, extracted_message, final_message, status, request, idx,
          temp_files_to_cleanup, flushes, disk, calls, response, yt_env,
          yt_result, info, extracted_media, video, temp_subs, thread_pc,
          subtitle_file, captions, outcome>>

\* The variables of _extract_media_from_url and of the caption threads.
side_vars == <<info, extracted_media, video, temp_subs, thread_pc,
               subtitle_file, captions, outcome>>

-----------------------------------------------------------------------------
(* Bounds *)

\* Longest results list handed to _aggregate_verdicts.
MaxResults == 3

-----------------------------------------------------------------------------
(* Python str primitives *)

UpperChars == <<"A","B","C","D","E","F","G","H","I","J","K","L","M",
                "N","O","P","Q","R","S","T","U","V","W","X","Y","Z">>
LowerChars == <<"a","b","c","d","e","f","g","h","i","j","k","l","m",
                "n","o","p","q","r","s","t","u","v","w","x","y","z">>

\* str.lower() on one character.
LowerChar(c) ==
    IF \E i \in 1..26 : UpperChars[i] = c
    THEN LowerChars[CHOOSE i \in 1..26 : UpperChars[i] = c]
    ELSE c

\* str.lower()
LowerStr(s) == [i \in 1..Len(s) |-> LowerChar(s[i])]

\* str.startswith(p)
StartsWith(s, p) == Len(s) >= Len(p) /\ SubSeq(s, 1, Len(p)) = p

\* s[n:]
DropFirst(s, n) == IF n >= Len(s) THEN <<>> ELSE SubSeq(s, n + 1, Len(s))

\* The characters str.strip() removes when called without argument.
Whitespace == {" ", "\n", "\t", "\r", "\f"}

\* str.strip(chars): remove the leading and trailing characters in cs.
StripChars(s, cs) ==
    LET keep == {i \in 1..Len(s) : s[i] \notin cs}
    IN  IF keep = {} THEN <<>>
        ELSE LET lo == CHOOSE i \in keep : \A j \in keep : i <= j
                 hi == CHOOSE i \in keep : \A j \in keep : j <= i
             IN  SubSeq(s, lo, hi)

\* str.strip()
Strip(s) == StripChars(s, Whitespace)

\* dict.get(key): a missing key and a None value both read as None.
None == [present |-> FALSE, s |-> <<>>]
Some(s) == [present |-> TRUE, s |-> s]

\* Python truthiness of an optional string: None and "" are falsy.
Truthy(v) == v.present /\ v.s # <<>>

-----------------------------------------------------------------------------
(* Verdict strings *)

S_true == <<"t","r","u","e">>
S_false == <<"f","a","l","s","e">>
S_uncertain == <<"u","n","c","e","r","t","a","i","n">>
S_mixed == <<"m","i","x","e","d">>
S_unknown == <<"u","n","k","n","o","w","n">>
S_no_content == <<"n","o","_","c","o","n","t","e","n","t">>
S_error == <<"e","r","r","o","r">>

-----------------------------------------------------------------------------
(* _aggregate_verdicts *)

\* A result's verified field: "absent" (no key), or the Python value it
\* holds: "True" and "False" are the booleans, "None" and "1" are not bool.
\* "verified" in r and isinstance(r.get("verified"), bool)
VerifiedIsBool(r) == r.verified \in {"True", "False"}

\* Mutant: the verdict string is read before the boolean verified.
ResolveVerdict_VerdictFirst(r) ==
    LET v1 == IF Truthy(r.verdict) THEN r.verdict
              ELSE IF VerifiedIsBool(r)
                   THEN Some(IF r.verified = "True" THEN S_true ELSE S_false)
                   ELSE None
        v2 == IF ~Truthy(v1) THEN r.overall_verdict ELSE v1
    IN  LowerStr(IF Truthy(v2) THEN v2.s ELSE S_unknown)

\* Mutant: the boolean verified is not read at all.
ResolveVerdict_IgnoresVerified(r) ==
    LET v2 == IF ~Truthy(r.verdict) THEN r.overall_verdict ELSE r.verdict
    IN  LowerStr(IF Truthy(v2) THEN v2.s ELSE S_unknown)

\* One iteration of the loop over results: the string appended to normalized.
ResolveVerdict(r) ==
    LET v1 == IF VerifiedIsBool(r)
              THEN Some(IF r.verified = "True" THEN S_true ELSE S_false)
              ELSE r.verdict
        v2 == IF ~Truthy(v1) THEN r.overall_verdict ELSE v1
    IN  LowerStr(IF Truthy(v2) THEN v2.s ELSE S_unknown)

\* The list normalized after the loop.
Normalize(rs) == [i \in 1..Len(rs) |-> ResolveVerdict(rs[i])]

In(x, seq) == \E i \in 1..Len(seq) : seq[i] = x

\* Mutant: "uncertain" is tested before "false".
AggregateVerdicts_UncertainFirst(rs) ==
    IF rs = <<>> THEN S_no_content
    ELSE LET n == Normalize(rs)
         IN  IF In(S_uncertain, n) THEN S_uncertain
             ELSE IF In(S_false, n) THEN S_false
             ELSE IF \A i \in 1..Len(n) : n[i] = S_true THEN S_true
             ELSE S_mixed

\* Mutant: the "uncertain" test is missing.
AggregateVerdicts_NoUncertain(rs) ==
    IF rs = <<>> THEN S_no_content
    ELSE LET n == Normalize(rs)
         IN  IF In(S_false, n) THEN S_false
             ELSE IF \A i \in 1..Len(n) : n[i] = S_true THEN S_true
             ELSE S_mixed

\* Mutant: any "true" item yields "true" once "false" is excluded.
AggregateVerdicts_AnyTrue(rs) ==
    IF rs = <<>> THEN S_no_content
    ELSE LET n == Normalize(rs)
         IN  IF In(S_false, n) THEN S_false
             ELSE IF In(S_uncertain, n) THEN S_uncertain
             ELSE IF In(S_true, n) THEN S_true
             ELSE S_mixed

\* Mutant: the empty-list test is missing (all() of nothing is True).
AggregateVerdicts_NoEmptyCheck(rs) ==
    LET n == Normalize(rs)
    IN  IF In(S_false, n) THEN S_false
        ELSE IF In(S_uncertain, n) THEN S_uncertain
        ELSE IF \A i \in 1..Len(n) : n[i] = S_true THEN S_true
        ELSE S_mixed

\* Mutant: only the last item is tested for "false".
AggregateVerdicts_LastFalse(rs) ==
    IF rs = <<>> THEN S_no_content
    ELSE LET n == Normalize(rs)
         IN  IF n[Len(n)] = S_false THEN S_false
             ELSE IF In(S_uncertain, n) THEN S_uncertain
             ELSE IF \A i \in 1..Len(n) : n[i] = S_true THEN S_true
             ELSE S_mixed

\* _aggregate_verdicts(results)
AggregateVerdicts(rs) ==
    IF rs = <<>> THEN S_no_content
    ELSE LET n == Normalize(rs)
         IN  IF In(S_false, n) THEN S_false
             ELSE IF In(S_uncertain, n) THEN S_uncertain
             ELSE IF \A i \in 1..Len(n) : n[i] = S_true THEN S_true
             ELSE S_mixed

-----------------------------------------------------------------------------
(* json.loads: the JSON values the strings of this model can hold.  A      *)
(* string value holds no escape sequence and a number is an integer: the   *)
(* messages of the model contain no backslash and no fraction or exponent. *)

JStr(s) == [t |-> "str", s |-> s]
JInt(s) == [t |-> "int", s |-> s]
JBool(b) == [t |-> "bool", b |-> b]
JNull == [t |-> "null"]
JArr(items) == [t |-> "arr", items |-> items]
JObj(keys, vals) == [t |-> "obj", keys |-> keys, vals |-> vals]

\* A JSONDecodeError.
Fail == [ok |-> FALSE, val |-> JNull, pos |-> 0]
Ok(v, p) == [ok |-> TRUE, val |-> v, pos |-> p]

\* The character at index i, "" past the end.
At(s, i) == IF i >= 1 /\ i <= Len(s) THEN s[i] ELSE ""

\* Whether w occurs in s at index i.
StartsWithAt(s, i, w) ==
    i + Len(w) - 1 <= Len(s) /\ SubSeq(s, i, i + Len(w) - 1) = w

\* The whitespace json skips between tokens.
JsonWs == {" ", "\t", "\n", "\r"}

\* The first index from i on that holds no JSON whitespace.
SkipWs(s, i) ==
    CHOOSE j \in i..(Len(s) + 1) :
        /\ j = Len(s) + 1 \/ s[j] \notin JsonWs
        /\ \A k \in i..(j - 1) : s[k] \in JsonWs

Digits == {"0", "1", "2", "3", "4", "5", "6", "7", "8", "9"}

\* py_scanstring: the string that starts at the quote at index i.
ParseString(s, i) ==
    LET ends == {j \in (i + 1)..Len(s) : s[j] = "\""}
    IN  IF ends = {} THEN Fail
        ELSE LET j == CHOOSE e \in ends : \A f \in ends : e <= f
                 body == SubSeq(s, i + 1, j - 1)
             IN  IF \E k \in 1..Len(body) : body[k] \in {"\n", "\t", "\r", "\f", "\\"}
                 THEN Fail
                 ELSE Ok(JStr(body), j + 1)

\* NUMBER_RE: the integer -?(0|[1-9][0-9]*) at index i; a fraction or an
\* exponent after it is no part of the model's inputs.
ParseNumber(s, i) ==
    LET d == IF At(s, i) = "-" THEN i + 1 ELSE i
    IN  IF At(s, d) \notin Digits THEN Fail
        ELSE LET e == IF s[d] = "0" THEN d + 1
                      ELSE CHOOSE j \in (d + 1)..(Len(s) + 1) :
                              /\ j = Len(s) + 1 \/ s[j] \notin Digits
                              /\ \A k \in (d + 1)..(j - 1) : s[k] \in Digits
             IN  IF At(s, e) \in {".", "e", "E"}
                    /\ At(s, e + 1) \in Digits \cup {"+", "-"}
                 THEN Fail
                 ELSE Ok(JInt(SubSeq(s, i, e - 1)), e)

\* The structural characters of JSON.
Punct(c) == [t |-> "punct", c |-> c]

\* The token at index i (no whitespace there): a structural character or a
\* scalar value.
TokenAt(s, i) ==
    LET c == s[i]
    IN  CASE c \in {"{", "}", "[", "]", ":", ","} -> Ok(Punct(c), i + 1)
          [] c = "\"" -> ParseString(s, i)
          [] c = "n" /\ StartsWithAt(s, i, <<"n","u","l","l">>) -> Ok(JNull, i + 4)
          [] c = "t" /\ StartsWithAt(s, i, <<"t","r","u","e">>) ->
                Ok(JBool(TRUE), i + 4)
          [] c = "f" /\ StartsWithAt(s, i, <<"f","a","l","s","e">>) ->
                Ok(JBool(FALSE), i + 5)
          [] c \in Digits \cup {"-"} -> ParseNumber(s, i)
          [] OTHER -> Fail

RECURSIVE Tokenize(_, _, _)
\* The tokens of s from index i on, after the tokens acc; ok is FALSE when
\* some character starts no token.
Tokenize(s, i, acc) ==
    LET with(t) == IF ~t.ok THEN [ok |-> FALSE, toks |-> acc]
                   ELSE Tokenize(s, t.pos, Append(acc, t.val))
        from(j) == IF j > Len(s) THEN [ok |-> TRUE, toks |-> acc]
                   ELSE with(TokenAt(s, j))
    IN  from(SkipWs(s, i))

\* The decoder's position in the grammar: the containers that are open
\* (innermost last), what may come next, and the finished value.
ParserStuck == [ok |-> FALSE, stack |-> <<>>, mode |-> "value", val |-> JNull]

\* A value v is complete: it is the document, or joins the open container.
Completed(st, v) ==
    IF st.stack = <<>>
    THEN [ok |-> TRUE, stack |-> <<>>, mode |-> "end", val |-> v]
    ELSE LET n == Len(st.stack)
             top == st.stack[n]
             top2 == IF top.t = "obj"
                     THEN [top EXCEPT !.vals = Append(@, v)]
                     ELSE [top EXCEPT !.items = Append(@, v)]
         IN  [ok |-> TRUE, stack |-> [st.stack EXCEPT ![n] = top2],
              mode |-> "comma_or_close", val |-> JNull]

\* JSONObject, JSONArray and scan_once, one token at a time.
ParserStep(st, tok) ==
    LET n == Len(st.stack)
        isP(c) == tok.t = "punct" /\ tok.c = c
        open(frame, m) ==
            [ok |-> TRUE, stack |-> Append(st.stack, frame), mode |-> m,
             val |-> JNull]
        close == Completed([st EXCEPT !.stack = SubSeq(st.stack, 1, n - 1)],
                           IF st.stack[n].t = "obj"
                           THEN JObj(st.stack[n].keys, st.stack[n].vals)
                           ELSE JArr(st.stack[n].items))
        key == [ok |-> TRUE,
                stack |-> [st.stack EXCEPT ![n].keys = Append(@, tok.s)],
                mode |-> "colon", val |-> JNull]
        value == IF isP("{") THEN open(JObj(<<>>, <<>>), "key_or_close")
                 ELSE IF isP("[") THEN open(JArr(<<>>), "value_or_close")
                 ELSE IF tok.t = "punct" THEN ParserStuck
                 ELSE Completed(st, tok)
    IN  CASE st.mode = "value" -> value
          [] st.mode = "value_or_close" -> IF isP("]") THEN close ELSE value
          [] st.mode = "key_or_close" ->
                IF isP("}") THEN close
                ELSE IF tok.t = "str" THEN key ELSE ParserStuck
          [] st.mode = "key" -> IF tok.t = "str" THEN key ELSE ParserStuck
          [] st.mode = "colon" ->
                IF isP(":") THEN [st EXCEPT !.mode = "value"] ELSE ParserStuck
          [] st.mode = "comma_or_close" ->
                IF isP(",")
                THEN [st EXCEPT !.mode = IF st.stack[n].t = "obj" THEN "key"
                                         ELSE "value"]
                ELSE IF (isP("}") /\ st.stack[n].t = "obj")
                        \/ (isP("]") /\ st.stack[n].t = "arr")
                THEN close
                ELSE ParserStuck
          [] st.mode = "end" -> ParserStuck

RECURSIVE ParserRun(_, _, _)
\* The decoder's position after the tokens from index k on.
ParserRun(toks, k, st) ==
    IF ~st.ok \/ k > Len(toks) THEN st
    ELSE ParserRun(toks, k + 1, ParserStep(st, toks[k]))

\* json.loads(s): one value, whitespace around it, nothing after it.
ParseJSON(s) ==
    LET done(st) == IF st.ok /\ st.mode = "end" THEN Ok(st.val, Len(s) + 1)
                    ELSE Fail
        parse(t) == IF ~t.ok THEN Fail
                    ELSE done(ParserRun(t.toks, 1,
                                   [ok |-> TRUE, stack |-> <<>>,
                                    mode |-> "value", val |-> JNull]))
    IN  parse(Tokenize(s, 1, <<>>))

\* Python truthiness of a parsed value.
PyTruthy(v) ==
    CASE v.t = "str" -> v.s # <<>>
      [] v.t = "int" -> v.s \notin {<<"0">>, <<"-","0">>}
      [] v.t = "bool" -> v.b
      [] v.t = "null" -> FALSE
      [] v.t = "arr" -> v.items # <<>>
      [] v.t = "obj" -> v.keys # <<>>

\* key in dict
ObjHas(o, k) == \E i \in 1..Len(o.keys) : o.keys[i] = k

\* dict[key]: the last pair of a repeated key wins.
ObjAt(o, k) ==
    LET is == {i \in 1..Len(o.keys) : o.keys[i] = k}
    IN  o.vals[CHOOSE i \in is : \A j \in is : j <= i]

\* dict.get(key): None for a missing key.
ObjGet(o, k) == IF ObjHas(o, k) THEN ObjAt(o, k) ELSE JNull

RECURSIVE Concat(_)
\* "".join(parts)
Concat(parts) ==
    IF parts = <<>> THEN <<>> ELSE Head(parts) \o Concat(Tail(parts))

RECURSIVE JoinWith(_, _)
\* sep.join(parts)
JoinWith(sep, parts) ==
    IF parts = <<>> THEN <<>>
    ELSE IF Len(parts) = 1 THEN parts[1]
    ELSE parts[1] \o sep \o JoinWith(sep, Tail(parts))

RECURSIVE SortedIdx(_)
\* The numbers of the set S in increasing order.
SortedIdx(S) ==
    IF S = {} THEN <<>>
    ELSE LET m == CHOOSE i \in S : \A j \in S : i <= j
         IN  <<m>> \o SortedIdx(S \ {m})

RECURSIVE PyFormat(_, _)
\* str(v) as an f-string formats a value, and repr(v) (quoted) as str() of
\* a list or dict formats its members: a string in single quotes (the
\* strings of the model hold no quote).
PyFormat(v, quoted) ==
    CASE v.t = "str" -> IF quoted THEN <<"'">> \o v.s \o <<"'">> ELSE v.s
      [] v.t = "int" -> IF v.s = <<"-","0">> THEN <<"0">> ELSE v.s
      [] v.t = "bool" -> IF v.b THEN <<"T","r","u","e">> ELSE <<"F","a","l","s","e">>
      [] v.t = "null" -> <<"N","o","n","e">>
      [] v.t \in {"arr", "obj"} ->
            LET first == IF v.t = "arr" THEN <<>>
                         ELSE SortedIdx({i \in 1..Len(v.keys) :
                                  \A j \in 1..(i - 1) : v.keys[j] # v.keys[i]})
                n == IF v.t = "arr" THEN Len(v.items) ELSE Len(first)
                label(i) == IF v.t = "arr" THEN <<>>
                            ELSE <<"'">> \o v.keys[first[i]] \o <<"'", ":", " ">>
                member(i) == IF v.t = "arr" THEN v.items[i]
                             ELSE ObjAt(v, v.keys[first[i]])
                body == JoinWith(<<",", " ">>,
                            [i \in 1..n |-> label(i) \o PyFormat(member(i), TRUE)])
            IN  IF v.t = "arr" THEN <<"[">> \o body \o <<"]">>
                ELSE <<"{">> \o body \o <<"}">>

\* str(v)
PyStr(v) == PyFormat(v, FALSE)

-----------------------------------------------------------------------------
(* The Result Normalizer: chatbot_verify, the branch for non-audio types *)

\* The backtick character (a name, as the lexer reads a backtick inside a
\* string literal as the start of a quotation).
Backtick == "<backtick>"

K_message == <<"m","e","s","s","a","g","e">>
K_verdict == <<"v","e","r","d","i","c","t">>
K_reasoning == <<"r","e","a","s","o","n","i","n","g">>
Fence == <<Backtick,Backtick,Backtick>>
FenceJson == <<Backtick,Backtick,Backtick,"j","s","o","n">>
DiagnosticPhrase ==
    <<"A","u","d","i","o"," ","d","e","e","p","f","a","k","e"," ","d","e",
      "t","e","c","t","i","o","n"," ","c","o","m","p","l","e","t","e","d">>
GenericAudioSentence ==
    <<"A","u","d","i","o"," ","d","e","e","p","f","a","k","e"," ","d","e",
      "t","e","c","t","i","o","n"," ","w","a","s"," ","p","e","r","f","o",
      "r","m","e","d",".">>
\* verdict_prefixes, in the order of the list.
VerdictPrefixes ==
    <<
      <<"t","h","i","s"," ","c","l","a","i","m"," ","i","s"," ","t","r","u",
        "e",":">>,
      <<"t","h","i","s"," ","c","l","a","i","m"," ","i","s"," ","f","a","l",
        "s","e",":">>,
      <<"t","h","i","s"," ","c","l","a","i","m"," ","i","s"," ","u","n","c",
        "e","r","t","a","i","n",":">>,
      <<"t","h","i","s"," ","c","l","a","i","m"," ","h","a","s"," ","m","i",
        "x","e","d"," ","e","v","i","d","e","n","c","e",":">>,
      <<"t","h","e"," ","c","l","a","i","m"," ","i","s"," ","t","r","u","e",
        ":">>,
      <<"t","h","e"," ","c","l","a","i","m"," ","i","s"," ","f","a","l","s",
        "e",":">>,
      <<"t","h","e"," ","c","l","a","i","m"," ","i","s"," ","u","n","c","e",
        "r","t","a","i","n",":">>,
      <<"r","e","s","u","l","t",":">>
    >>

\* re.sub of the pattern ^p with flags=re.I, p a lower-case literal.
ReSubPrefixI(s, p) ==
    IF Len(s) >= Len(p) /\ LowerStr(SubSeq(s, 1, Len(p))) = p
    THEN DropFirst(s, Len(p)) ELSE s

\* re.sub of the pattern fence$: $ matches at the end and before a final
\* newline.
ReSubFenceEnd(s) ==
    LET n == Len(s)
    IN  IF n >= 3 /\ SubSeq(s, n - 2, n) = Fence THEN SubSeq(s, 1, n - 3)
        ELSE IF n >= 4 /\ SubSeq(s, n - 3, n) = Fence \o <<"\n">>
        THEN SubSeq(s, 1, n - 4) \o <<"\n">>
        ELSE s

\* Mutant: the test for JSON-looking text is missing.
LooksNonJson_Never(raw_final) == FALSE

\* nonjson: non-empty text that starts neither with { nor with a fence.
LooksNonJson(raw_final) ==
    /\ raw_final # <<>>
    /\ ~(StartsWith(raw_final, <<"{">>) \/ StartsWith(raw_final, Fence))

\* rt: the text handed to json.loads.
FenceStripped(raw_final) ==
    LET rt0 == StripChars(raw_final, {Backtick, " ", "\n"})
        rt1 == Strip(ReSubPrefixI(rt0, FenceJson))
        rt2 == Strip(ReSubPrefixI(rt1, Fence))
    IN  Strip(ReSubFenceEnd(rt2))

\* The sentence is never built from the verdict: an object without a
\* truthy message gives "".
MessageOf_NoVerdict(obj) ==
    LET pick(m) == IF PyTruthy(m) THEN m ELSE JStr(<<>>)
    IN  pick(ObjGet(obj, K_message))

\* extracted_message for a parsed JSON object: its message, else the
\* sentence built from its verdict and reasoning, else "".  A truthy
\* message that is no string is kept as it is.
MessageOf(obj) ==
    LET pick(m) ==
            IF PyTruthy(m) THEN m
            ELSE IF ObjHas(obj, K_verdict)
            THEN JStr(<<"V","e","r","d","i","c","t",":"," ">>
                   \o PyStr(ObjAt(obj, K_verdict))
                   \o (IF PyTruthy(ObjGet(obj, K_reasoning))
                       THEN <<"."," ">> \o PyStr(ObjGet(obj, K_reasoning))
                       ELSE <<>>))
            ELSE JStr(<<>>)
    IN  pick(ObjGet(obj, K_message))

\* extracted_message after the try block: json.loads raising, and get()
\* raising on a value that is no dict, both leave raw_final.
UnwrapJson(raw_final) ==
    LET pick(p) == IF ~p.ok \/ p.val.t # "obj" THEN JStr(raw_final)
                   ELSE MessageOf(p.val)
    IN  pick(ParseJSON(FenceStripped(raw_final)))

\* extracted_message
ExtractedMessage(raw_final) ==
    IF LooksNonJson(raw_final) THEN JStr(raw_final) ELSE UnwrapJson(raw_final)

\* Mutant: the prefixes are compared without lower().
StripVerdictPrefix_CaseSensitive(fm) ==
    LET st == Strip(fm)
        hits == {i \in 1..Len(VerdictPrefixes) : StartsWith(st, VerdictPrefixes[i])}
    IN  IF hits = {} THEN fm
        ELSE LET i == CHOOSE h \in hits : \A g \in hits : h <= g
             IN  Strip(DropFirst(st, Len(VerdictPrefixes[i])))

\* The loop over verdict_prefixes: the first prefix that matches is cut.
StripVerdictPrefix(fm) ==
    LET st == Strip(fm)
        hits == {i \in 1..Len(VerdictPrefixes) :
                    StartsWith(LowerStr(st), VerdictPrefixes[i])}
    IN  IF hits = {} THEN fm
        ELSE LET i == CHOOSE h \in hits : \A g \in hits : h <= g
             IN  Strip(DropFirst(st, Len(VerdictPrefixes[i])))

\* The stray audio diagnostic is replaced by a generic sentence.
HideDiagnostic(fm) ==
    IF StartsWith(Strip(fm), DiagnosticPhrase) THEN GenericAudioSentence ELSE fm

\* Lines 1036-1066 on best_msg: raised is the AttributeError of calling
\* strip() on a final_message that is no string.
NormalizeMessage(best) ==
    LET finish(raw_final, em) ==
            [raised |-> em.t # "str",
             out |-> IF em.t # "str" THEN <<>>
                     ELSE HideDiagnostic(StripVerdictPrefix(em.s)),
             tried |-> ~LooksNonJson(raw_final),
             extracted |-> em]
        extract(raw_final) == finish(raw_final, ExtractedMessage(raw_final))
    IN  extract(Strip(best))

-----------------------------------------------------------------------------
(* Results handed to the aggregator *)

Result(vf, vd, ov, msg, sm) ==
    [verified |-> vf, verdict |-> vd, overall_verdict |-> ov,
     message |-> msg, summary |-> sm]

\* The results the aggregator is run on.
AggResults ==
    LET \* Results whose boolean verified decides, with a missing and a
        \* contradicting verdict string.
        VerifiedResults ==
            {Result(vf, vd, None, None, None) :
                vf \in {"True", "False"},
                vd \in {None, Some(S_false)}}
        \* Results without a boolean verified: the verdict string decides.
        VerdictResults ==
            {Result(vf, vd, None, None, None) :
                vf \in {"absent", "1"},
                vd \in {Some(S_false), Some(<<"T","r","u","e">>), Some(S_error)}}
            \cup
            {Result("None", Some(<<"F","A","L","S","E">>), None, None, None),
             Result("absent", Some(<<"U","n","c","e","r","t","a","i","n">>),
                    Some(S_false), None, None)}
        \* Results with no usable verdict string: details.overall_verdict decides,
        \* or nothing does.
        DetailsResults ==
            {Result("absent", vd, ov, None, None) :
                vd \in {None, Some(<<>>)},
                ov \in {None, Some(S_uncertain)}}
    IN  VerifiedResults \cup VerdictResults \cup DetailsResults

SeqsUpTo(S, n) == UNION {[1..k -> S] : k \in 0..n}

-----------------------------------------------------------------------------
(* Messages handed to the Result Normalizer *)

\* Longest stack of verdict prefixes in front of a prose message.
MaxStack == 2

\* Texts a verifier or the LLM returns: JSON objects with and without the
\* keys read, other JSON values, broken JSON and prose.
JsonBodies ==
    {<<"{","\"","m","e","s","s","a","g","e","\"",":"," ","\"","A","l","l",
       " ","c","l","e","a","r","\"","}">>,
     <<"{","\"","m","e","s","s","a","g","e","\"",":"," ","\"","\"","}">>,
     <<"{","\"","m","e","s","s","a","g","e","\"",":"," ","\"","\"",","," ",
       "\"","v","e","r","d","i","c","t","\"",":"," ","\"","f","a","l","s",
       "e","\"",","," ","\"","r","e","a","s","o","n","i","n","g","\"",":",
       " ","\"","s","t","a","g","e","d","\"","}">>,
     <<"{","\"","v","e","r","d","i","c","t","\"",":"," ","\"","t","r","u",
       "e","\"","}">>,
     <<"{","\"","v","e","r","d","i","c","t","\"",":"," ","\"","f","a","l",
       "s","e","\"",","," ","\"","r","e","a","s","o","n","i","n","g","\"",
       ":"," ","\"","\"","}">>,
     <<"{","\"","m","e","s","s","a","g","e","\"",":"," ","5","}">>,
     <<"{","\"","m","e","s","s","a","g","e","\"",":"," ","0",","," ","\"",
       "v","e","r","d","i","c","t","\"",":"," ","7","}">>,
     <<"{","\"","m","e","s","s","a","g","e","\"",":"," ","t","r","u","e",
       "}">>,
     <<"{","\"","m","e","s","s","a","g","e","\"",":"," ","n","u","l","l",
       ","," ","\"","v","e","r","d","i","c","t","\"",":"," ","n","u","l",
       "l",","," ","\"","r","e","a","s","o","n","i","n","g","\"",":"," ",
       "-","1","2","}">>,
     <<"{","\"","m","e","s","s","a","g","e","\"",":"," ","[","\"","a","\"",
       "]","}">>,
     <<"{","\"","m","e","s","s","a","g","e","\"",":"," ","{","\"","m","e",
       "s","s","a","g","e","\"",":"," ","\"","x","\"","}","}">>,
     <<"{","\"","m","e","s","s","a","g","e","\"",":"," ","\"","R","e","s",
       "u","l","t",":"," ","h","i","\"","}">>,
     <<"{","\"","m","e","s","s","a","g","e","\"",":"," ","\""," ","T","h",
       "i","s"," ","c","l","a","i","m"," ","i","s"," ","t","r","u","e",":",
       " ","y","e","s"," ","\"","}">>,
     <<"{","\"","m","e","s","s","a","g","e","\"",":"," ","\"","A","u","d",
       "i","o"," ","d","e","e","p","f","a","k","e"," ","d","e","t","e","c",
       "t","i","o","n"," ","c","o","m","p","l","e","t","e","d","\"","}">>,
     <<"{","\"","m","e","s","s","a","g","e","\"",":"," ","\"","{","}","\"",
       "}">>,
     <<"{","\"","m","e","s","s","a","g","e","\"",":"," ","\"","a","\"",",",
       " ","\"","m","e","s","s","a","g","e","\"",":"," ","\"","\"","}">>,
     <<"{","\"","v","e","r","d","i","c","t","\"",":"," ","[","\"","a","\"",
       ","," ","1",","," ","{","}","]",","," ","\"","r","e","a","s","o","n",
       "i","n","g","\"",":"," ","{","\"","k","\"",":"," ","t","r","u","e",
       ","," ","\"","k","\"",":"," ","[","]","}","}">>,
     <<"{"," ","\"","r","e","a","s","o","n","i","n","g","\""," ",":"," ",
       "\"","w","h","y","\""," ",",","\n","\"","m","e","s","s","a","g","e",
       "\"",":","\"","A","l","l"," ","c","l","e","a","r","\""," ","}">>,
     <<"{","}">>,
     <<"[","1","]">>,
     <<"\"","A","l","l"," ","c","l","e","a","r","\"">>,
     <<"5">>,
     <<"n","u","l","l">>,
     <<"{","\"","m","e","s","s","a","g","e","\"",":"," ","\"","A","l","l",
       " ","c","l","e","a","r","\"">>,
     <<"{","m","e","s","s","a","g","e",":"," ","\"","A","l","l"," ","c","l",
       "e","a","r","\"","}">>,
     <<"{","\"","m","e","s","s","a","g","e","\"",":"," ","\"","A","l","l",
       " ","c","l","e","a","r","\"",",","}">>,
     <<"{","\"","m","e","s","s","a","g","e","\"",":"," ","\"","A","l","l",
       "\n","c","l","e","a","r","\"","}">>,
     <<"A","l","l"," ","c","l","e","a","r">>,
     <<"R","e","s","u","l","t",":"," ","h","i">>}

\* Prose a verdict prefix may precede.
ProseCores ==
    {<<"t","h","e"," ","i","m","a","g","e"," ","w","a","s"," ","s","t","a",
       "g","e","d">>,
     <<"T","h","e"," ","s","k","y"," ","i","s"," ","b","l","u","e",".">>,
     <<>>,
     <<"A","u","d","i","o"," ","d","e","e","p","f","a","k","e"," ","d","e",
       "t","e","c","t","i","o","n"," ","c","o","m","p","l","e","t","e","d">>,
     <<"{","}">>}

RECURSIVE Stacked(_)
\* Prose with at most k verdict prefixes in front of it, the prefixes as
\* the list spells them and in other letter cases.
Stacked(k) ==
    LET PrefixSpellings ==
            {VerdictPrefixes[i] : i \in 1..Len(VerdictPrefixes)}
            \cup {<<"T","h","i","s"," ","c","l","a","i","m"," ","i","s"," ",
                    "f","a","l","s","e",":">>,
                  <<"R","E","S","U","L","T",":">>}
    IN  IF k = 0 THEN ProseCores
        ELSE ProseCores \cup
             {p \o <<" ">> \o m : p \in PrefixSpellings, m \in Stacked(k - 1)}

\* The JSON bodies between what may precede and follow them.
WrappedMessages ==
    LET \* What precedes a body: nothing, a fence, a fence with a language tag, a
        \* single backtick, whitespace.
        Openers ==
            {<<>>,
             <<Backtick,Backtick,Backtick>>,
             <<Backtick,Backtick,Backtick,"\n">>,
             <<Backtick,Backtick,Backtick,"j","s","o","n","\n">>,
             <<Backtick,Backtick,Backtick,"J","S","O","N"," ">>,
             <<Backtick>>,
             <<" ","\n">>}
        \* What follows a body.
        Closers ==
            {<<>>,
             <<Backtick,Backtick,Backtick>>,
             <<"\n",Backtick,Backtick,Backtick>>,
             <<" ","\n">>}
    IN  {o \o b \o c : o \in Openers, b \in JsonBodies, c \in Closers}

Messages == WrappedMessages \cup Stacked(MaxStack)

\* Results as the verifiers return them: a message, or a summary when the
\* message is missing or empty.
NormResults ==
    {Result("True", None, None, Some(m), None) : m \in Messages}
    \cup
    {Result("True", None, None, mm, Some(sm)) :
        mm \in {None, Some(<<>>)},
        sm \in {<<"R","e","s","u","l","t",":"," ","h","i"," ">>}}

-----------------------------------------------------------------------------
(* Outcomes of the calls chatbot_verify makes *)

\* A call returns a value or raises an exception with a text.
Returns(v) == [val |-> v]
Raises(e) == [exc |-> e]
Raised(o) == "exc" \in DOMAIN o

\* str(e) of the exception a failing call raises.
ExcText == <<"E","r","r","n","o"," ","1","1","1">>

\* result["source"] = s
SetSource(r, s) ==
    [k \in DOMAIN r \cup {"source"} |-> IF k = "source" THEN s ELSE r[k]]

\* The message of a verifier that succeeds.
OkMessage(verifier) ==
    LET M_text_ok ==
            <<"T","e","x","t"," ","v","e","r","i","f","i","c","a","t","i","o","n",
              " ","i","n"," ","p","r","o","g","r","e","s","s">>
        M_image_ok ==
            <<"I","m","a","g","e"," ","v","e","r","i","f","i","c","a","t","i","o",
              "n"," ","i","n"," ","p","r","o","g","r","e","s","s">>
        M_video_ok ==
            <<"V","i","d","e","o"," ","v","e","r","i","f","i","c","a","t","i","o",
              "n"," ","i","n"," ","p","r","o","g","r","e","s","s">>
    IN  CASE verifier = "text" -> M_text_ok
          [] verifier = "image" -> M_image_ok
          [] OTHER -> M_video_ok

\* The result a verifier returns when it succeeds.
VerifierOk(msg) == Result("True", Some(S_uncertain), None, Some(msg), None)

\* The result a verifier returns when it caught its own exception.
VerifierFailed(e) ==
    LET M_failed ==
            <<"V","e","r","i","f","i","c","a","t","i","o","n"," ","f","a","i","l",
              "e","d",":"," ">>
    IN  Result("False", Some(S_error), None, Some(M_failed \o e), None)

\* The result of a fact check that found the claim false.
TextFalse ==
    LET M_debunked ==
            <<"D","e","b","u","n","k","e","d"," ","b","y"," ","t","w","o"," ","f",
              "a","c","t"," ","c","h","e","c","k","e","r","s",".">>
    IN  Result("False", Some(S_false), None, Some(M_debunked), None)

-----------------------------------------------------------------------------
(* _extract_claims_from_captions and _verify_youtube_video *)

\* claims[:5]
ClaimLimit == 5

\* claim_text[:150]
ClaimDisplayMax == 150

\* s[:n]
TakeFirst(s, n) == IF Len(s) <= n THEN s ELSE SubSeq(s, 1, n)

\* [c.strip() for c in claims if c and c.strip()][:5]
FilterClaims(raw) ==
    LET keep(c) == c # <<>> /\ Strip(c) # <<>>
        kept(cs) == TakeFirst([i \in 1..Len(cs) |-> Strip(cs[i])], ClaimLimit)
    IN  kept(SelectSeq(raw, keep))

M_captions == <<"c","a","p","t","i","o","n","s">>

\* One entry of claim_results: the verifier's result with claim_text and
\* claim_index, or the error entry when the verifier raised.
ClaimEntry(claim, i, out) ==
    LET M_claim_error ==
            <<"E","r","r","o","r"," ","d","u","r","i","n","g"," ","v","e","r","i",
              "f","i","c","a","t","i","o","n",":"," ">>
    IN  IF Raised(out)
        THEN [claim_text |-> claim, claim_index |-> i, verified |-> "False",
              verdict |-> Some(S_error), message |-> Some(M_claim_error \o out.exc)]
        ELSE [claim_text |-> claim, claim_index |-> i,
              verified |-> out.val.verified, verdict |-> out.val.verdict,
              message |-> out.val.message]

\* The loop over the claims stops at the first raise and skips the rest.
ClaimResults_StopAtRaise(claims, fate) ==
    LET stop == {i \in 1..Len(claims) : Raised(fate[claims[i]])}
        n == IF stop = {} THEN Len(claims)
             ELSE CHOOSE i \in stop : \A j \in stop : i <= j
    IN  [i \in 1..n |-> ClaimEntry(claims[i], i, fate[claims[i]])]

\* Lines 683-703: one entry per claim, in claim order.
ClaimResults(claims, fate) ==
    [i \in 1..Len(claims) |-> ClaimEntry(claims[i], i, fate[claims[i]])]

\* r.get("verdict", "uncertain")
VerdictOr(r) == IF r.verdict.present THEN r.verdict.s ELSE S_uncertain

\* Mutant: a mixed claim is looked for before a true one.
YoutubeVerdict_MixedFirst(crs) ==
    LET CountVerdict(v) ==
            Cardinality({i \in 1..Len(crs) : VerdictOr(crs[i]) = v})
    IN  IF CountVerdict(S_false) > 0 THEN [verdict |-> S_false, verified |-> "False"]
        ELSE IF CountVerdict(S_mixed) > 0 THEN [verdict |-> S_mixed, verified |-> "False"]
        ELSE IF CountVerdict(S_true) > 0 THEN [verdict |-> S_true, verified |-> "True"]
        ELSE IF CountVerdict(S_uncertain) > 0
             THEN [verdict |-> S_uncertain, verified |-> "False"]
        ELSE [verdict |-> S_error, verified |-> "False"]

\* Lines 716-731: overall_verdict and verified of the video, from
\* verdicts.count(v).
YoutubeVerdict(crs) ==
    LET CountVerdict(v) ==
            Cardinality({i \in 1..Len(crs) : VerdictOr(crs[i]) = v})
    IN  IF CountVerdict(S_false) > 0 THEN [verdict |-> S_false, verified |-> "False"]
        ELSE IF CountVerdict(S_true) > 0 THEN [verdict |-> S_true, verified |-> "True"]
        ELSE IF CountVerdict(S_mixed) > 0 THEN [verdict |-> S_mixed, verified |-> "False"]
        ELSE IF CountVerdict(S_uncertain) > 0
             THEN [verdict |-> S_uncertain, verified |-> "False"]
        ELSE [verdict |-> S_error, verified |-> "False"]

\* verdict_label; an emoji is one name per code point.
VerdictLabelOf(v) ==
    LET Emoji_check == "<U+2705>"
        Emoji_cross == "<U+274C>"
        Emoji_warning == "<U+26A0>"
        Emoji_vs16 == "<U+FE0F>"
        Emoji_question == "<U+2753>"
    IN  CASE v = S_true -> <<Emoji_check>> \o <<" ","T","R","U","E">>
          [] v = S_false -> <<Emoji_cross>> \o <<" ","F","A","L","S","E">>
          [] v = S_mixed -> <<Emoji_warning, Emoji_vs16>> \o <<" ","M","I","X","E","D">>
          [] v = S_error -> <<Emoji_warning, Emoji_vs16>> \o <<" ","E","R","R","O","R">>
          [] OTHER -> <<Emoji_question>> \o <<" ","U","N","C","E","R","T","A","I","N">>

\* str(i) of an integer from 0 to 99.
DigitStr(i) ==
    LET DigitChars == <<"0", "1", "2", "3", "4", "5", "6", "7", "8", "9">>
    IN  IF i < 10 THEN <<DigitChars[i + 1]>>
        ELSE <<DigitChars[(i \div 10) + 1], DigitChars[(i % 10) + 1]>>

\* Lines 530-552: the summary _generate_claims_summary falls back to when
\* the LLM call fails.
FallbackSummary(crs) ==
    LET M_analyzed == <<"A","n","a","l","y","z","e","d"," ">>
        M_analyzed_tail ==
            <<" ","c","o","n","t","r","o","v","e","r","s","i","a","l"," ","c","l",
              "a","i","m","(","s",")"," ","f","r","o","m"," ","t","h","e"," ","v",
              "i","d","e","o"," ","t","r","a","n","s","c","r","i","p","t",":","\n">>
        M_explanation ==
            <<" "," "," ","E","x","p","l","a","n","a","t","i","o","n",":"," ">>
        M_no_explanation ==
            <<"N","o"," ","e","x","p","l","a","n","a","t","i","o","n"," ","a","v",
              "a","i","l","a","b","l","e">>
        M_ellipsis == <<".",".",".">>
        display(t) ==
            IF Len(t) > ClaimDisplayMax THEN TakeFirst(t, ClaimDisplayMax) \o M_ellipsis
            ELSE t
        head(i) == <<"\n">> \o DigitStr(i) \o <<".", " ">>
                   \o VerdictLabelOf(VerdictOr(crs[i])) \o <<":", " ">>
                   \o display(crs[i].claim_text)
        expl(i) == M_explanation \o
                   (IF crs[i].message.present THEN crs[i].message.s
                    ELSE M_no_explanation)
        part(k) == IF k % 2 = 1 THEN head((k + 1) \div 2) ELSE expl(k \div 2)
    IN  JoinWith(<<"\n">>,
                 <<M_analyzed \o DigitStr(Len(crs)) \o M_analyzed_tail>>
                 \o [k \in 1..(2 * Len(crs)) |-> part(k)])

\* _generate_claims_summary: the summary the LLM writes
\* (response.text.strip(), without code fence), or the fallback.
ClaimsSummary(crs, llm_ok) ==
    LET M_summary ==
            <<"T","w","o"," ","c","l","a","i","m","s"," ","w","e","r","e"," ","c",
              "h","e","c","k","e","d",";"," ","o","n","e"," ","o","f"," ","t","h",
              "e","m"," ","i","s"," ","f","a","l","s","e",".">>
    IN  IF llm_ok THEN M_summary ELSE FallbackSummary(crs)

YoutubeResult(vf, vd, msg, crs) ==
    [verified |-> vf, verdict |-> Some(vd), overall_verdict |-> None,
     message |-> Some(msg), summary |-> None, source |-> "youtube_url",
     claim_results |-> crs]

\* Lines 646-656.
NoCaptionsResult ==
    LET M_no_captions ==
            <<"C","o","u","l","d"," ","n","o","t"," ","e","x","t","r","a","c","t",
              " ","c","a","p","t","i","o","n","s"," ","f","r","o","m"," ","t","h",
              "e"," ","Y","o","u","T","u","b","e"," ","v","i","d","e","o","."," ",
              "T","h","e"," ","v","i","d","e","o"," ","m","a","y"," ","n","o","t",
              " ","h","a","v","e"," ","c","a","p","t","i","o","n","s"," ","a","v",
              "a","i","l","a","b","l","e",".">>
    IN  YoutubeResult("False", S_error, M_no_captions, <<>>)

\* Lines 667-678.
NoClaimsResult ==
    LET M_no_claims ==
            <<"N","o"," ","v","e","r","i","f","i","a","b","l","e"," ","c","l","a",
              "i","m","s"," ","w","e","r","e"," ","f","o","u","n","d"," ","i","n",
              " ","t","h","e"," ","v","i","d","e","o"," ","t","r","a","n","s","c",
              "r","i","p","t","."," ","T","h","e"," ","v","i","d","e","o"," ","m",
              "a","y"," ","c","o","n","t","a","i","n"," ","o","n","l","y"," ","o",
              "p","i","n","i","o","n","s",","," ","q","u","e","s","t","i","o","n",
              "s",","," ","o","r"," ","n","o","n","-","f","a","c","t","u","a","l",
              " ","c","o","n","t","e","n","t",".">>
    IN  YoutubeResult("False", S_uncertain, M_no_claims, <<>>)

\* What _verify_youtube_video meets: captions found or not, an exception
\* of the LLM set-up (or none), the claims the LLM lists, the outcome of
\* verifying each claim, and whether the summary call succeeds.
YoutubeEnv(cap, setup, raw, fate, llm_ok) ==
    [captions |-> cap, setup |-> setup, raw_claims |-> raw, fate |-> fate,
     summary_ok |-> llm_ok]

\* The try block of _verify_youtube_video: a result, or the exception
\* raised while the LLM is set up.
YoutubeBody(env) ==
    LET combine(crs, v) ==
            YoutubeResult(v.verified, v.verdict,
                          ClaimsSummary(crs, env.summary_ok), crs)
        verified(crs) == combine(crs, YoutubeVerdict(crs))
        checked(claims) ==
            IF claims = <<>> THEN NoClaimsResult
            ELSE verified(ClaimResults(claims, env.fate))
    IN  IF ~env.captions THEN Returns(NoCaptionsResult)
        ELSE IF Raised(env.setup) THEN Raises(env.setup.exc)
        ELSE Returns(checked(FilterClaims(env.raw_claims)))

\* The catch-all of lines 755-768 is missing: the exception propagates.
VerifyYoutubeVideo_Propagates(env) == YoutubeBody(env)

\* _verify_youtube_video: the catch-all turns an exception into a result.
VerifyYoutubeVideo(env) ==
    LET M_youtube_error ==
            <<"E","r","r","o","r"," ","p","r","o","c","e","s","s","i","n","g"," ",
              "Y","o","u","T","u","b","e"," ","v","i","d","e","o",":"," ">>
        caught(b) ==
            IF Raised(b)
            THEN Returns(YoutubeResult("False", S_error, M_youtube_error \o b.exc, <<>>))
            ELSE b
    IN  caught(YoutubeBody(env))

-----------------------------------------------------------------------------
(* The audio branch of the file loop *)

\* Lines 866-895: ai_message from the answer of the LLM (an exception or a
\* text), with the fixed sentence when there is none.  The JSON answers of
\* the model carry string messages.
AiMessage(deepfake, answer) ==
    LET M_audio_fake ==
            <<"T","h","i","s"," ","a","u","d","i","o"," ","i","s"," ","l","i","k",
              "e","l","y"," ","A","I","-","g","e","n","e","r","a","t","e","d",".">>
        M_audio_real ==
            <<"T","h","i","s"," ","a","u","d","i","o"," ","a","p","p","e","a","r",
              "s"," ","a","u","t","h","e","n","t","i","c"," ","a","n","d"," ","h",
              "u","m","a","n",".">>
        template == IF deepfake THEN M_audio_fake ELSE M_audio_real
        str(v) == IF v.t = "str" THEN v.s ELSE PyStr(v)
        unwrap(text, p) ==
            IF ~p.ok \/ p.val.t # "obj" THEN text ELSE str(MessageOf(p.val))
        rt(text) ==
            Strip(ReSubFenceEnd(
                Strip(ReSubPrefixI(
                    Strip(ReSubPrefixI(StripChars(text, {Backtick, " "}), FenceJson)),
                    Fence))))
        ai(text) ==
            IF StartsWith(text, <<"{">>) \/ StartsWith(text, FenceJson)
            THEN unwrap(text, ParseJSON(rt(text)))
            ELSE text
        orTemplate(m) == IF m = <<>> THEN template ELSE m
    IN  IF Raised(answer) \/ answer.val = <<>> THEN template
        ELSE orTemplate(ai(Strip(answer.val)))

\* Lines 896-902 and 911.
AudioResult(deepfake, msg) ==
    [verified |-> IF deepfake THEN "False" ELSE "True", verdict |-> None,
     overall_verdict |-> None, message |-> Some(msg), summary |-> None,
     source |-> "uploaded_file"]

-----------------------------------------------------------------------------
(* The request of chatbot_verify and what it meets on its way *)

\* Items (uploaded files and URLs) of one request.
MaxItems == 2

\* Claims the LLM lists for one video, before filtering.
MaxRawClaims == 6

\* processed_input: an error, or the verification type with the text, the
\* number of uploaded files and the URLs of content.
Request(err, text, files, urls) ==
    [error |-> err, text |-> text, files |-> files, urls |-> urls]

NoRequest == Request(FALSE, FALSE, 0, <<>>)

Requests ==
    {Request(TRUE, FALSE, 0, <<>>)}
    \cup
    {Request(FALSE, t, f, u) :
        t \in BOOLEAN, f \in 0..MaxItems,
        u \in UNION {[1..k -> {"youtube", "social", "direct"}] : k \in 0..MaxItems}}

\* Paths on disk: an uploaded file, the temporary directory of the media
\* of a URL, and the media file in it.
Upload(k) == [kind |-> "upload", k |-> k]
TempDir(k) == [kind |-> "temp_dir", k |-> k]
MediaFile(k) == [kind |-> "media", k |-> k]
IsDir(p) == p.kind = "temp_dir"

Range(s) == {s[i] : i \in 1..Len(s)}

\* cleanup_temp_files: os.remove deletes a file; on a directory it raises
\* and the exception is printed and dropped.
Flush(paths, d) == d \ {p \in Range(paths) : ~IsDir(p)}

\* What a call of a verifier can do: return its result, return the result
\* of a failure it caught, return text of an LLM as message (JSON with a
\* number as message), or raise.
VerifierOutcomes(okmsg) ==
    LET M_json_number == <<"{","\"","m","e","s","s","a","g","e","\"",":"," ","5","}">>
    IN  {Returns(VerifierOk(okmsg)), Returns(VerifierFailed(ExcText)),
         Returns(VerifierOk(M_json_number)), Raises(ExcText)}

\* model.generate_content(gemini_prompt): an exception, no text, prose,
\* prose that starts with the diagnostic phrase, or a JSON object.
AudioAnswers ==
    LET M_audio_prose ==
            <<"T","h","e"," ","r","e","c","o","r","d","i","n","g"," ","s","o","u",
              "n","d","s"," ","l","i","k","e"," ","a"," ","r","e","a","l"," ","p",
              "e","r","s","o","n"," ","s","p","e","a","k","i","n","g",".">>
    IN  {Raises(ExcText), Returns(<<>>), Returns(M_audio_prose),
         Returns(DiagnosticPhrase \o <<".">>),
         Returns(<<"{", "\"", "m", "e", "s", "s", "a", "g", "e", "\"", ":", " ", "\"">>
                 \o M_audio_prose \o <<"\"", "}">>)}

\* The claim texts of the model, and the outcome of verifying each.
ClaimTexts == {<<"a">>, <<"b">>}
ClaimOutcomes ==
    {Returns(VerifierOk(OkMessage("text"))), Returns(TextFalse),
     Returns(Result("True", Some(S_true), None, Some(OkMessage("text")), None)),
     Returns(Result("False", Some(S_mixed), None, Some(OkMessage("text")), None)),
     Returns(VerifierFailed(ExcText)), Raises(ExcText)}

\* What _verify_youtube_video meets inside a request of the model.
YoutubeEnvs ==
    {YoutubeEnv(FALSE, Returns(TRUE), <<>>, [c \in ClaimTexts |-> Raises(ExcText)], TRUE),
     YoutubeEnv(TRUE, Raises(ExcText), <<>>, [c \in ClaimTexts |-> Raises(ExcText)], TRUE),
     YoutubeEnv(TRUE, Returns(TRUE), <<>>, [c \in ClaimTexts |-> Raises(ExcText)], TRUE),
     YoutubeEnv(TRUE, Returns(TRUE), <<(<<"a">>)>>,
                [c \in ClaimTexts |-> Raises(ExcText)], FALSE)}

\* What _extract_media_from_url meets: no tool, a failing or raising
\* metadata query, a failing download, no file, or the media.
ResolverOutcomes ==
    {"no_tool", "info_failed", "info_raises", "download_failed", "no_file",
     "image", "video"}

\* _extract_media_from_url for the k-th URL: the media found (or None) and
\* the paths it leaves on disk.
ExtractMedia(k, o) ==
    CASE o = "no_tool" -> [found |-> FALSE, type |-> "", made |-> {}]
      [] o \in {"info_failed", "info_raises", "download_failed", "no_file"} ->
            [found |-> FALSE, type |-> "", made |-> {TempDir(k)}]
      [] OTHER ->
            [found |-> TRUE, type |-> o, made |-> {TempDir(k), MediaFile(k)}]

\* The text, the k-th file or the k-th URL of the request.
Item(kind, k) == [kind |-> kind, k |-> k]

\* One call of a verifier or tool, as chatbot_verify makes it: the callee,
\* whether it is given the URL or a local path, the item it is made for,
\* what the callee met (for the resolver and the YouTube pipeline) and
\* whether it raised.
Call(callee, arg, item, met, raised) ==
    [callee |-> callee, arg |-> arg, item |-> item, met |-> met,
     raised |-> raised]

\* What the handling of one item does: the exception that leaves the
\* loop, the results and cleanup entries it appends, the paths it creates
\* and the calls it makes.
Effect(raised, res, cl, made, log) ==
    [raised |-> raised, res |-> res, cl |-> cl, made |-> made, log |-> log]

\* e after the calls and the paths of an earlier attempt on the same item.
After(log, made, e) ==
    Effect(e.raised, e.res, e.cl, made \cup e.made, log \o e.log)

\* Lines 989-1002: the verifier of a direct URL.
DirectVerifier(vtype) == IF vtype = "image" THEN "image" ELSE "video"

\* Lines 988-1005: the URL itself is verified.
DirectEffects(k, vtype) ==
    LET effects(v) ==
            {Effect(Raised(o),
                    IF Raised(o) THEN <<>> ELSE <<SetSource(o.val, "url")>>,
                    <<>>, {}, <<Call(v, "url", Item("url", k), "", Raised(o))>>) :
                o \in VerifierOutcomes(OkMessage(v))}
    IN  effects(DirectVerifier(vtype))

\* The verifier of the declared type checks the extracted media.
ResolvedVerifier_Declared(type, vtype) == DirectVerifier(vtype)

\* Lines 957-968: the verifier of extracted media.
ResolvedVerifier(type, vtype) == IF type = "image" THEN "image" ELSE "video"

\* Lines 944-986: the media of the URL is extracted and verified; without
\* media, or when its verifier raises, the URL itself is verified.
ResolvedEffects(k, vtype) ==
    LET tried(met) == <<Call("resolver", "url", Item("url", k), met, FALSE)>>
        verified(met, x, v) ==
            UNION {IF Raised(o)
                   THEN {After(tried(met) \o
                               <<Call(v, "path", Item("url", k), "", TRUE)>>,
                               x.made, d) :
                            d \in DirectEffects(k, vtype)}
                   ELSE {Effect(FALSE, <<SetSource(o.val, "url")>>,
                                <<MediaFile(k), TempDir(k)>>, x.made,
                                tried(met) \o
                                <<Call(v, "path", Item("url", k), "", FALSE)>>)} :
                      o \in VerifierOutcomes(OkMessage(v))}
        with(met, x) ==
            IF x.found THEN verified(met, x, ResolvedVerifier(x.type, vtype))
            ELSE {After(tried(met), x.made, d) : d \in DirectEffects(k, vtype)}
    IN  UNION {with(o, ExtractMedia(k, o)) : o \in ResolverOutcomes}

\* The continue of line 927 is missing: after its caption-based result
\* the YouTube URL goes on as a social-media URL.
YoutubeEffects_NoContinue(k, vtype) ==
    LET tried(env, y) ==
            <<Call("youtube", "url", Item("url", k), env, Raised(y))>>
        with(env, y) ==
            {Effect(e.raised, (IF Raised(y) THEN <<>> ELSE <<y.val>>) \o e.res,
                    e.cl, e.made, tried(env, y) \o e.log) :
                e \in ResolvedEffects(k, vtype)}
    IN  UNION {with(env, VerifyYoutubeVideo(env)) : env \in YoutubeEnvs}

\* Lines 922-933: a YouTube URL is verified through its captions; were
\* the call to raise, the URL would go on as a social-media URL.
YoutubeEffects(k, vtype) ==
    LET tried(env, y) ==
            <<Call("youtube", "url", Item("url", k), env, Raised(y))>>
        with(env, y) ==
            IF Raised(y)
            THEN {After(tried(env, y), {}, e) : e \in ResolvedEffects(k, vtype)}
            ELSE {Effect(FALSE, <<y.val>>, <<>>, {}, tried(env, y))}
    IN  UNION {with(env, VerifyYoutubeVideo(env)) : env \in YoutubeEnvs}

\* Lines 918-1006 for the k-th URL.
UrlEffects(k, kind, vtype) ==
    CASE kind = "youtube" -> YoutubeEffects(k, vtype)
      [] kind = "social" -> ResolvedEffects(k, vtype)
      [] OTHER -> DirectEffects(k, vtype)

\* Lines 842-913 for the k-th uploaded file: its path joins the cleanup
\* list, then its verifier runs.
FileEffects(k, vtype) ==
    LET item == Item("file", k)
        verified(v) ==
            {Effect(Raised(o),
                    IF Raised(o) THEN <<>> ELSE <<SetSource(o.val, "uploaded_file")>>,
                    <<Upload(k)>>, {}, <<Call(v, "path", item, "", Raised(o))>>) :
                o \in VerifierOutcomes(OkMessage(v))}
        audio ==
            UNION {IF Raised(d)
                   THEN {Effect(TRUE, <<>>, <<Upload(k)>>, {},
                                <<Call("deepfake", "path", item, "", TRUE)>>)}
                   ELSE {Effect(FALSE, <<AudioResult(d.val, AiMessage(d.val, a))>>,
                                <<Upload(k)>>, {},
                                <<Call("deepfake", "path", item, "", FALSE)>>) :
                            a \in AudioAnswers} :
                      d \in {Returns(TRUE), Returns(FALSE), Raises(ExcText)}}
    IN  IF vtype = "image" THEN verified("image")
        ELSE IF vtype = "audio" THEN audio
        ELSE verified("video")

\* Lines 827-835: the text is verified.
TextEffects ==
    {Effect(Raised(o),
            IF Raised(o) THEN <<>> ELSE <<SetSource(o.val, "text_input")>>,
            <<>>, {}, <<Call("text", "text", Item("text", 0), "", Raised(o))>>) :
        o \in VerifierOutcomes(OkMessage("text"))}

-----------------------------------------------------------------------------
(* chatbot_verify, step by step *)

\* The response is built without its verdict.
ResponseFields_NoVerdict == {"message", "details"}

\* Lines 1072-1083: the keys of the response.
ResponseFields == {"message", "verdict", "details"}

\* Lines 1088-1096: the cleanup list is flushed and HTTP 500 is raised.
Fail500(cl, d) ==
    /\ flushes' = Append(flushes, cl)
    /\ disk' = Flush(cl, d)
    /\ status' = 500
    /\ response' = {"detail"}
    /\ pc' = "done"

PcAfterFiles == IF request.urls # <<>> THEN "urls" ELSE "flush"
PcAfterText == IF request.files > 0 THEN "files" ELSE PcAfterFiles

InitIdle ==
    /\ info = [ext |-> <<>>, formats |-> <<>>]
    /\ extracted_media = <<>>
    /\ video = <<>>
    /\ temp_subs = [exists |-> FALSE, files |-> {}]
    /\ thread_pc = <<>>
    /\ subtitle_file = <<>>
    /\ captions = <<>>
    /\ outcome = <<>>
    /\ idx = 1
    /\ temp_files_to_cleanup = <<>>
    /\ flushes = <<>>
    /\ calls = <<>>
    /\ response = {}
    /\ yt_env = YoutubeEnv(FALSE, Returns(TRUE), <<>>,
                           [c \in ClaimTexts |-> Raises(ExcText)], TRUE)
    /\ yt_result = <<>>

-----------------------------------------------------------------------------
(* The tail of chatbot_verify *)

\* overall = _aggregate_verdicts(results)
AggregateStep ==
    /\ pc = "aggregate"
    /\ normalized' = Normalize(results)
    /\ overall' = AggregateVerdicts(results)
    /\ pc' = "compose"
    /\ UNCHANGED <<results, verification_type, best_msg, json_tried,
                   extracted_message, final_message, status, request, idx,
                   temp_files_to_cleanup, flushes, disk, calls, response,
                   yt_env, yt_result, side_vars>>

\* candidates: (r.get("message") or r.get("summary") or "").strip() of
\* each result, the empty ones left out.
Candidates(rs) ==
    LET CandidateOf(r) ==
            Strip(IF Truthy(r.message) THEN r.message.s
                  ELSE IF Truthy(r.summary) THEN r.summary.s
                  ELSE <<>>)
        NonEmpty(m) == m # <<>>
    IN  SelectSeq([i \in 1..Len(rs) |-> CandidateOf(rs[i])], NonEmpty)

\* max(candidates, key=len, default=""): the first of the longest.
BestMsg(rs) ==
    LET pick(c) ==
            IF c = <<>> THEN <<>>
            ELSE c[CHOOSE i \in 1..Len(c) :
                      /\ \A j \in 1..Len(c) : Len(c[j]) <= Len(c[i])
                      /\ \A j \in 1..(i - 1) : Len(c[j]) < Len(c[i])]
    IN  pick(Candidates(rs))

\* The audio branch is missing: the longest candidate is refined as for
\* the other types.
AudioMessage_Refined(rs) == NormalizeMessage(BestMsg(rs)).out

\* "\n\n".join(audio_msgs), audio_msgs the truthy messages
AudioMessage(rs) ==
    LET HasMessage(r) == Truthy(r.message)
        join(withMsg) ==
            JoinWith(<<"\n", "\n">>,
                     [i \in 1..Len(withMsg) |-> withMsg[i].message.s])
    IN  join(SelectSeq(rs, HasMessage))

\* Lines 1019-1068: best_msg and the refined final_message.
Compose(rs, vtype, tried, extracted) ==
    LET audio(best) ==
            [best_msg |-> best, raised |-> FALSE, out |-> AudioMessage(rs),
             tried |-> tried, extracted |-> extracted]
        refined(best, n) ==
            [best_msg |-> best, raised |-> n.raised, out |-> n.out,
             tried |-> n.tried, extracted |-> n.extracted]
        plain(best) ==
            [best_msg |-> best, raised |-> FALSE, out |-> best,
             tried |-> tried, extracted |-> extracted]
        with(best) ==
            IF vtype = "audio" /\ rs # <<>> THEN audio(best)
            ELSE IF vtype # "audio" THEN refined(best, NormalizeMessage(best))
            ELSE plain(best)
    IN  with(BestMsg(rs))

\* The response is returned, or the exception becomes HTTP 500.
Respond(o) ==
    /\ best_msg' = o.best_msg
    /\ json_tried' = o.tried
    /\ extracted_message' = o.extracted
    /\ final_message' = o.out
    /\ IF o.raised
       THEN Fail500(temp_files_to_cleanup, disk)
       ELSE /\ status' = 200
            /\ response' = ResponseFields
            /\ pc' = "done"
            /\ UNCHANGED <<flushes, disk>>

\* Candidate selection, output refinement and the response; an exception
\* of the refinement ends the request in HTTP 500.
ComposeStep ==
    /\ pc = "compose"
    /\ Respond(Compose(results, verification_type, json_tried,
                       extracted_message))
    /\ UNCHANGED <<results, verification_type, normalized, overall, request,
                   idx, temp_files_to_cleanup, calls, yt_env, yt_result, side_vars>>

InitLocals ==
    /\ pc = "aggregate"
    /\ normalized = <<>>
    /\ overall = <<>>
    /\ best_msg = <<>>
    /\ json_tried = FALSE
    /\ extracted_message = JStr(<<>>)
    /\ final_message = <<>>
    /\ status = 0
    /\ request = NoRequest
    /\ disk = {}
    /\ InitIdle

InitAgg ==
    /\ results \in SeqsUpTo(AggResults, MaxResults)
    /\ verification_type = "text"
    /\ InitLocals

NextAgg == AggregateStep

\* _aggregate_verdicts applied to every results list of the model.
SpecAgg == InitAgg /\ [][NextAgg]_vars

InitNorm ==
    /\ results \in SeqsUpTo(NormResults, 1)
    /\ verification_type \in {"text", "audio"}
    /\ InitLocals

NextNorm == AggregateStep \/ ComposeStep

\* The tail of chatbot_verify applied to one result carrying each message.
SpecNorm == InitNorm /\ [][NextNorm]_vars

\* The results of a batch: messages of different lengths, with whitespace
\* around them, as JSON and with a verdict prefix, and summaries.
InitBatch ==
    /\ results \in SeqsUpTo(
           {Result("True", None, None, mm, sm) :
               mm \in {None, Some(<<>>), Some(<<"o","k">>), Some(<<" "," ","L","o","o","k","s"," ","f","i","n","e"," "," ">>), Some(<<"{","\"","m","e","s","s","a","g","e","\"",":"," ","\"","x","\"","}">>), Some(<<"R","e","s","u","l","t",":"," ","h","i">>)},
               sm \in {None, Some(<<"A"," ","l","o","n","g","e","r"," ","s","u","m","m","a","r","y",".">>)}},
           MaxItems)
    /\ verification_type \in {"text", "audio"}
    /\ InitLocals

NextBatch == AggregateStep \/ ComposeStep

\* The tail of chatbot_verify applied to the results of a batch.
SpecBatch == InitBatch /\ [][NextBatch]_vars

-----------------------------------------------------------------------------
(* The head of chatbot_verify: input, text, files, URLs and cleanup *)

\* Lines 803-824: the processed input; its error is returned as it is.
ProcessInputStep ==
    /\ pc = "process"
    /\ IF request.error
       THEN /\ response' = {"error"}
            /\ status' = 200
            /\ pc' = "done"
       ELSE /\ pc' = "text"
            /\ UNCHANGED <<response, status>>
    /\ UNCHANGED <<results, verification_type, normalized, overall, best_msg,
                   json_tried, extracted_message, final_message, request, idx,
                   temp_files_to_cleanup, flushes, disk, calls, yt_env,
                   yt_result, side_vars>>

\* The result of an item is put in front of the earlier results.
Apply_Prepends(e, next_pc, next_idx) ==
    /\ results' = e.res \o results
    /\ temp_files_to_cleanup' = temp_files_to_cleanup \o e.cl
    /\ calls' = calls \o e.log
    /\ IF e.raised
       THEN /\ Fail500(temp_files_to_cleanup \o e.cl, disk \cup e.made)
            /\ UNCHANGED idx
       ELSE /\ disk' = disk \cup e.made
            /\ pc' = next_pc
            /\ idx' = next_idx
            /\ UNCHANGED <<flushes, status, response>>
    /\ UNCHANGED <<verification_type, normalized, overall, best_msg,
                   json_tried, extracted_message, final_message, request,
                   yt_env, yt_result, side_vars>>

\* The effect e of one item on the request.
Apply(e, next_pc, next_idx) ==
    /\ results' = results \o e.res
    /\ temp_files_to_cleanup' = temp_files_to_cleanup \o e.cl
    /\ calls' = calls \o e.log
    /\ IF e.raised
       THEN /\ Fail500(temp_files_to_cleanup \o e.cl, disk \cup e.made)
            /\ UNCHANGED idx
       ELSE /\ disk' = disk \cup e.made
            /\ pc' = next_pc
            /\ idx' = next_idx
            /\ UNCHANGED <<flushes, status, response>>
    /\ UNCHANGED <<verification_type, normalized, overall, best_msg,
                   json_tried, extracted_message, final_message, request,
                   yt_env, yt_result, side_vars>>

TextStep ==
    /\ pc = "text"
    /\ IF verification_type = "text" /\ request.text
       THEN \E e \in TextEffects : Apply(e, PcAfterText, 1)
       ELSE Apply(Effect(FALSE, <<>>, <<>>, {}, <<>>), PcAfterText, 1)

FileStep ==
    /\ pc = "files"
    /\ \E e \in FileEffects(idx, verification_type) :
          IF idx < request.files THEN Apply(e, "files", idx + 1)
          ELSE Apply(e, PcAfterFiles, 1)

UrlStep ==
    /\ pc = "urls"
    /\ \E e \in UrlEffects(idx, request.urls[idx], verification_type) :
          IF idx < Len(request.urls) THEN Apply(e, "urls", idx + 1)
          ELSE Apply(e, "flush", 1)

\* Lines 1008-1010.
FlushStep ==
    /\ pc = "flush"
    /\ IF temp_files_to_cleanup # <<>>
       THEN /\ flushes' = Append(flushes, temp_files_to_cleanup)
            /\ disk' = Flush(temp_files_to_cleanup, disk)
       ELSE UNCHANGED <<flushes, disk>>
    /\ pc' = "aggregate"
    /\ UNCHANGED <<results, verification_type, normalized, overall, best_msg,
                   json_tried, extracted_message, final_message, status,
                   request, idx, temp_files_to_cleanup, calls, response,
                   yt_env, yt_result, side_vars>>

InitReq ==
    /\ request \in {r \in Requests : r.files + Len(r.urls) <= MaxItems}
    /\ verification_type \in {"text", "image", "video", "audio"}
    /\ results = <<>>
    /\ disk = {Upload(k) : k \in 1..request.files}
    /\ pc = "process"
    /\ normalized = <<>>
    /\ overall = <<>>
    /\ best_msg = <<>>
    /\ json_tried = FALSE
    /\ extracted_message = JStr(<<>>)
    /\ final_message = <<>>
    /\ status = 0
    /\ InitIdle

NextReq ==
    \/ ProcessInputStep
    \/ TextStep
    \/ FileStep
    \/ UrlStep
    \/ FlushStep
    \/ AggregateStep
    \/ ComposeStep

\* chatbot_verify on every request of the model.
SpecReq == InitReq /\ [][NextReq]_vars

InitFiles ==
    /\ InitReq
    /\ request.urls = <<>>

NextFiles ==
    \/ ProcessInputStep
    \/ TextStep
    \/ FileStep
    \/ FlushStep
    \/ AggregateStep
    \/ ComposeStep

\* chatbot_verify on the requests that carry no URL.
SpecFiles == InitFiles /\ [][NextFiles]_vars

InitUrls ==
    /\ InitReq
    /\ request.files = 0
    /\ ~request.text
    /\ ~request.error
    /\ verification_type # "text"

NextUrls ==
    \/ ProcessInputStep
    \/ TextStep
    \/ UrlStep

\* The URL loop of chatbot_verify on the requests that carry only URLs.
SpecUrls == InitUrls /\ [][NextUrls]_vars

-----------------------------------------------------------------------------
(* _verify_youtube_video on its own *)

YoutubeStep ==
    /\ pc = "youtube"
    /\ yt_result' = <<VerifyYoutubeVideo(yt_env)>>
    /\ pc' = "youtube_done"
    /\ UNCHANGED <<results, verification_type, normalized, overall, best_msg,
                   json_tried, extracted_message, final_message, status,
                   request, idx, temp_files_to_cleanup, flushes, disk, calls,
                   response, yt_env, side_vars>>

InitYT ==
    /\ yt_env \in
          {YoutubeEnv(cap, setup, raw, fate, llm) :
              cap \in {TRUE}, setup \in {Returns(TRUE)},
              raw \in UNION {[1..k -> {<<>>, <<"a">>, <<" ", "b">>}] : k \in 0..MaxRawClaims},
              fate \in [ClaimTexts -> ClaimOutcomes], llm \in {TRUE}}
          \cup
          {YoutubeEnv(cap, setup, <<(<<"a">>), (<<"b">>)>>,
                      [c \in ClaimTexts |-> IF c = <<"a">> THEN Raises(ExcText)
                                            ELSE Returns(TextFalse)], llm) :
              cap \in BOOLEAN, setup \in {Returns(TRUE), Raises(ExcText)},
              llm \in BOOLEAN}
    /\ yt_result = <<>>
    /\ info = [ext |-> <<>>, formats |-> <<>>]
    /\ extracted_media = <<>>
    /\ video = <<>>
    /\ temp_subs = [exists |-> FALSE, files |-> {}]
    /\ thread_pc = <<>>
    /\ subtitle_file = <<>>
    /\ captions = <<>>
    /\ outcome = <<>>
    /\ pc = "youtube"
    /\ request = NoRequest
    /\ verification_type = "video"
    /\ results = <<>>
    /\ disk = {}
    /\ idx = 1
    /\ temp_files_to_cleanup = <<>>
    /\ flushes = <<>>
    /\ calls = <<>>
    /\ response = {}
    /\ normalized = <<>>
    /\ overall = <<>>
    /\ best_msg = <<>>
    /\ json_tried = FALSE
    /\ extracted_message = JStr(<<>>)
    /\ final_message = <<>>
    /\ status = 0

NextYT == YoutubeStep

\* _verify_youtube_video for every list of claims of the model.
SpecYT == InitYT /\ [][NextYT]_vars

-----------------------------------------------------------------------------
(* _extract_media_from_url: the classification of the resolved media *)

\* The longest formats list of the model.
MaxFormats == 2

\* The info documents of the model are what yt-dlp --dump-json prints: an
\* extension and the formats, each with its codecs.  A missing codec key
\* reads as None, which f.get(...) != "none" takes for a codec.

\* media_type and the --format argument of the download command.
ClassifyMedia(i) ==
    LET ext == LowerStr(i.ext)
        formats == i.formats
        VideoExts ==
            {<<"m","p","4">>,
             <<"w","e","b","m">>,
             <<"m","k","v">>,
             <<"a","v","i">>,
             <<"m","o","v">>,
             <<"f","l","v">>,
             <<"m","4","v">>}
        ImageExts ==
            {<<"j","p","g">>,
             <<"j","p","e","g">>,
             <<"p","n","g">>,
             <<"g","i","f">>,
             <<"w","e","b","p">>,
             <<"b","m","p">>}
        by_ext_video == ext \in VideoExts
        by_ext_image == ext \in ImageExts
        inconclusive == ~by_ext_video /\ ~by_ext_image
        has_video_codec == \E k \in 1..Len(formats) : formats[k].vcodec # "none"
        has_audio_codec == \E k \in 1..Len(formats) : formats[k].acodec # "none"
        is_video == by_ext_video \/ (inconclusive /\ has_video_codec)
        is_image == by_ext_image
                    \/ (inconclusive /\ ~has_video_codec /\ ~has_audio_codec)
    IN  [type |-> IF is_video THEN "video" ELSE "image",
         format |-> IF is_image THEN "best" ELSE "best[ext=mp4]/best"]

\* _extract_media_from_url from the parsed info to the download command.
ClassifyStep ==
    /\ pc = "classify"
    /\ extracted_media' = <<ClassifyMedia(info)>>
    /\ pc' = "classified"
    /\ UNCHANGED <<results, verification_type, normalized, overall, best_msg,
                   json_tried, extracted_message, final_message, status,
                   request, idx, temp_files_to_cleanup, flushes, disk, calls,
                   response, yt_env, yt_result, info, video, temp_subs,
                   thread_pc, subtitle_file, captions, outcome>>

\* Every variable of chatbot_verify and _verify_youtube_video at rest.
InitOutside ==
    /\ results = <<>>
    /\ verification_type = "video"
    /\ normalized = <<>>
    /\ overall = <<>>
    /\ best_msg = <<>>
    /\ json_tried = FALSE
    /\ extracted_message = JStr(<<>>)
    /\ final_message = <<>>
    /\ status = 0
    /\ request = NoRequest
    /\ disk = {}
    /\ idx = 1
    /\ temp_files_to_cleanup = <<>>
    /\ flushes = <<>>
    /\ calls = <<>>
    /\ response = {}
    /\ yt_env = YoutubeEnv(FALSE, Returns(TRUE), <<>>,
                           [c \in ClaimTexts |-> Raises(ExcText)], TRUE)
    /\ yt_result = <<>>

InitResolve ==
    /\ info \in
          {[ext |-> e, formats |-> fs] :
              e \in {<<"m","p","4">>, <<"M","K","V">>, <<"j","p","g">>, <<"P","N","G">>, <<"m","p","3">>, <<>>},
              fs \in SeqsUpTo({[vcodec |-> v, acodec |-> a] :
                                  v \in {"none", "avc1", "None"},
                                  a \in {"none", "mp4a", "None"}},
                              MaxFormats)}
    /\ extracted_media = <<>>
    /\ pc = "classify"
    /\ video = <<>>
    /\ temp_subs = [exists |-> FALSE, files |-> {}]
    /\ thread_pc = <<>>
    /\ subtitle_file = <<>>
    /\ captions = <<>>
    /\ outcome = <<>>
    /\ InitOutside

NextResolve == ClassifyStep

\* The classification of _extract_media_from_url on every info of the model.
SpecResolve == InitResolve /\ [][NextResolve]_vars

-----------------------------------------------------------------------------
(* get_youtube_transcript_ytdlp in the executor threads of concurrent       *)
(* requests: every call works in the one directory temp_subs                *)

\* The number of requests in flight, each with one YouTube URL.
MaxThreads == 2

\* The videos of the model: the id in the URL, and whether yt-dlp finds
\* English subtitles for it.  yt-dlp names the subtitle file after the id,
\* so the model names a file of temp_subs by the id alone, and the test
\* "video_id in file" is equality of ids.

\* What _verify_youtube_video makes of the captions it was given: the fixed
\* rest of the call finds one claim, which the text verifier refutes.
ResultWithCaptions(found) ==
    VerifyYoutubeVideo(YoutubeEnv(found, Returns(TRUE), <<(<<"a">>)>>,
                                  [c \in ClaimTexts |-> Returns(TextFalse)],
                                  TRUE))

\* os.makedirs(temp_dir, exist_ok=True)
MakeDirs(t) ==
    /\ thread_pc[t] = "makedirs"
    /\ temp_subs' = [temp_subs EXCEPT !.exists = TRUE]
    /\ thread_pc' = [thread_pc EXCEPT ![t] = "download"]
    /\ UNCHANGED <<results, verification_type, pc, normalized, overall,
                   best_msg, json_tried, extracted_message, final_message,
                   status, request, idx, temp_files_to_cleanup, flushes, disk,
                   calls, response, yt_env, yt_result, info, extracted_media,
                   video, subtitle_file, captions, outcome>>

\* ydl.extract_info(normalized_url, download=True): yt-dlp writes the
\* subtitle file when the video has subtitles, making the directories of
\* its output template when another thread has removed them meanwhile.
Download(t) ==
    /\ thread_pc[t] = "download"
    /\ temp_subs' = IF video[t].subs
                    THEN [exists |-> TRUE,
                          files |-> temp_subs.files \cup {video[t].id}]
                    ELSE temp_subs
    /\ thread_pc' = [thread_pc EXCEPT ![t] = "find"]
    /\ UNCHANGED <<results, verification_type, pc, normalized, overall,
                   best_msg, json_tried, extracted_message, final_message,
                   status, request, idx, temp_files_to_cleanup, flushes, disk,
                   calls, response, yt_env, yt_result, info, extracted_media,
                   video, subtitle_file, captions, outcome>>

\* The loop over os.listdir(temp_dir): FileNotFoundError when the directory
\* is gone, else the file of this video id, else None.
FindSubtitle(t) ==
    /\ thread_pc[t] = "find"
    /\ IF temp_subs.exists /\ video[t].id \in temp_subs.files
       THEN /\ subtitle_file' = [subtitle_file EXCEPT ![t] = <<video[t].id>>]
            /\ thread_pc' = [thread_pc EXCEPT ![t] = "read"]
            /\ UNCHANGED captions
       ELSE /\ captions' = [captions EXCEPT ![t] = None]
            /\ thread_pc' = [thread_pc EXCEPT ![t] = "verify"]
            /\ UNCHANGED subtitle_file
    /\ UNCHANGED <<results, verification_type, pc, normalized, overall,
                   best_msg, json_tried, extracted_message, final_message,
                   status, request, idx, temp_files_to_cleanup, flushes, disk,
                   calls, response, yt_env, yt_result, info, extracted_media,
                   video, temp_subs, outcome>>

\* os.path.exists(subtitle_file), then open and parse: None when the file is
\* gone by the first test, an exception and so None when it is gone by the
\* second.
ReadSubtitle(t) ==
    /\ thread_pc[t] = "read"
    /\ IF temp_subs.exists /\ subtitle_file[t][1] \in temp_subs.files
       THEN /\ captions' = [captions EXCEPT ![t] = Some(<<subtitle_file[t][1]>>)]
            /\ thread_pc' = [thread_pc EXCEPT ![t] = "rmtree"]
       ELSE /\ captions' = [captions EXCEPT ![t] = None]
            /\ thread_pc' = [thread_pc EXCEPT ![t] = "verify"]
    /\ UNCHANGED <<results, verification_type, pc, normalized, overall,
                   best_msg, json_tried, extracted_message, final_message,
                   status, request, idx, temp_files_to_cleanup, flushes, disk,
                   calls, response, yt_env, yt_result, info, extracted_media,
                   video, temp_subs, subtitle_file, outcome>>

\* shutil.rmtree(temp_dir), inside the try: it removes the directory with
\* every file in it, and raises when the directory is gone already, so the
\* call returns None though the transcript was read.
RemoveTree(t) ==
    /\ thread_pc[t] = "rmtree"
    /\ IF temp_subs.exists
       THEN /\ temp_subs' = [exists |-> FALSE, files |-> {}]
            /\ UNCHANGED captions
       ELSE /\ captions' = [captions EXCEPT ![t] = None]
            /\ UNCHANGED temp_subs
    /\ thread_pc' = [thread_pc EXCEPT ![t] = "verify"]
    /\ UNCHANGED <<results, verification_type, pc, normalized, overall,
                   best_msg, json_tried, extracted_message, final_message,
                   status, request, idx, temp_files_to_cleanup, flushes, disk,
                   calls, response, yt_env, yt_result, info, extracted_media,
                   video, subtitle_file, outcome>>

\* _verify_youtube_video after the executor call: "if not captions", or
\* the claims of the transcript.
AfterCaptions(t) ==
    /\ thread_pc[t] = "verify"
    /\ outcome' = [outcome EXCEPT ![t] = <<ResultWithCaptions(captions[t].present)>>]
    /\ thread_pc' = [thread_pc EXCEPT ![t] = "done"]
    /\ UNCHANGED <<results, verification_type, pc, normalized, overall,
                   best_msg, json_tried, extracted_message, final_message,
                   status, request, idx, temp_files_to_cleanup, flushes, disk,
                   calls, response, yt_env, yt_result, info, extracted_media,
                   video, temp_subs, subtitle_file, captions>>

InitThreads ==
    /\ video \in [1..MaxThreads ->
                    {[id |-> "idA", subs |-> TRUE], [id |-> "idB", subs |-> TRUE],
                     [id |-> "idC", subs |-> FALSE]}]
    /\ temp_subs = [exists |-> FALSE, files |-> {}]
    /\ thread_pc = [t \in 1..MaxThreads |-> "makedirs"]
    /\ subtitle_file = [t \in 1..MaxThreads |-> <<>>]
    /\ captions = [t \in 1..MaxThreads |-> None]
    /\ outcome = [t \in 1..MaxThreads |-> <<>>]
    /\ pc = "threads"
    /\ info = [ext |-> <<>>, formats |-> <<>>]
    /\ extracted_media = <<>>
    /\ InitOutside

NextThreads ==
    \E t \in 1..MaxThreads :
        \/ MakeDirs(t)
        \/ Download(t)
        \/ FindSubtitle(t)
        \/ ReadSubtitle(t)
        \/ RemoveTree(t)
        \/ AfterCaptions(t)

\* Concurrent requests, each with one YouTube URL, at the caption step.
SpecThreads == InitThreads /\ [][NextThreads]_vars

-----------------------------------------------------------------------------
(* The per-item precedence rule of the Verdict Aggregator, as specified *)

\* The verdict an item resolves to: the boolean verified, else the
\* verdict string, else details.overall_verdict, else "unknown"; a missing
\* or empty string supplies nothing; strings count in lower case.
RuleVerdict(r) ==
    CASE r.verified = "True" -> S_true
      [] r.verified = "False" -> S_false
      [] r.verified \notin {"True", "False"} /\ Truthy(r.verdict) ->
            LowerStr(r.verdict.s)
      [] r.verified \notin {"True", "False"} /\ ~Truthy(r.verdict)
            /\ Truthy(r.overall_verdict) -> LowerStr(r.overall_verdict.s)
      [] OTHER -> S_unknown

SomeResolves(rs, v) == \E i \in 1..Len(rs) : RuleVerdict(rs[i]) = v
AllResolve(rs, v) == \A i \in 1..Len(rs) : RuleVerdict(rs[i]) = v

Aggregated == pc = "compose"

\* The results lists of the specification's scenarios.
OnlyVerified(vf) == Result(vf, None, None, None, None)
OnlyVerdict(vd) == Result("absent", Some(vd), None, None, None)
OnlyDetails(ov) == Result("absent", None, Some(ov), None, None)

-----------------------------------------------------------------------------
(* Claims about _aggregate_verdicts, checked under SpecAgg *)

\* C1: for every non-empty results list in which at least one item resolves
\* to "false", the overall verdict is "false", whatever the other items
\* resolve to.
C1_FalseDominates ==
    (Aggregated /\ results # <<>> /\ SomeResolves(results, S_false))
        => overall = S_false

\* The scenario [{verified: true}, {verdict: "false"},
\* {details.overall_verdict: "uncertain"}] has been aggregated to "false".
C1_Witness ==
    /\ Aggregated
    /\ results = <<OnlyVerified("True"), OnlyVerdict(S_false),
                   OnlyDetails(S_uncertain)>>
    /\ overall = S_false

\* C2: every item resolves to exactly one verdict with first-match-wins
\* precedence: boolean verified (True to "true", False to "false",
\* overriding any verdict string), else the verdict string, else
\* details.overall_verdict, else "unknown"; the value is lower-cased, so
\* that verdict "FALSE" counts as "false".
C2_Precedence ==
    Aggregated =>
        /\ Len(normalized) = Len(results)
        /\ \A i \in 1..Len(results) :
              /\ normalized[i] = RuleVerdict(results[i])
              /\ (results[i].verified = "True" => normalized[i] = S_true)
              /\ (results[i].verified = "False" => normalized[i] = S_false)
              /\ (results[i] = Result("None", Some(<<"F","A","L","S","E">>),
                                      None, None, None)
                    => normalized[i] = S_false)

\* A list with an item whose verified True overrides its verdict "false",
\* an item resolved by its upper-case verdict string, and an item with no
\* verdict anywhere.
C2_Witness ==
    /\ Aggregated
    /\ results = <<Result("True", Some(S_false), None, None, None),
                   Result("None", Some(<<"F","A","L","S","E">>), None, None, None),
                   Result("absent", Some(<<>>), None, None, None)>>
    /\ normalized = <<S_true, S_false, S_unknown>>

\* C3: for every non-empty results list in which no item resolves to "false"
\* and at least one resolves to "uncertain", the overall verdict is
\* "uncertain".
C3_UncertainSecond ==
    (Aggregated /\ results # <<>> /\ ~SomeResolves(results, S_false)
        /\ SomeResolves(results, S_uncertain))
        => overall = S_uncertain

\* [true, uncertain] has been aggregated to "uncertain".
C3_Witness ==
    /\ Aggregated
    /\ results = <<OnlyVerified("True"), OnlyDetails(S_uncertain)>>
    /\ overall = S_uncertain

\* C4: for a non-empty results list with no item resolving to "false" or
\* "uncertain", the overall verdict is "true" exactly when every item
\* resolves to "true", and "mixed" otherwise.
C4_TrueNeedsConsensus ==
    (Aggregated /\ results # <<>> /\ ~SomeResolves(results, S_false)
        /\ ~SomeResolves(results, S_uncertain))
        => /\ overall \in {S_true, S_mixed}
           /\ overall = S_true <=> AllResolve(results, S_true)

\* A single "true" item among "error" and "unknown" items has been
\* aggregated to "mixed".
C4_Witness ==
    /\ Aggregated
    /\ results = <<OnlyVerified("True"), OnlyVerdict(S_error),
                   Result("absent", None, None, None, None)>>
    /\ overall = S_mixed

\* C5: the overall verdict is "no_content" for an empty results list, and
\* for no non-empty list.
C5_NoContentIffEmpty ==
    Aggregated => (overall = S_no_content <=> results = <<>>)

\* The empty list has been aggregated.
C5_Witness == Aggregated /\ results = <<>> /\ overall = S_no_content

\* The permutations of 1..n, for every list length of the model.
Perms ==
    [n \in 0..(MaxResults + 1) |->
        {f \in [1..n -> 1..n] : \A i, j \in 1..n : f[i] = f[j] => i = j}]

\* C6: any two results lists that are permutations of each other give the
\* same overall verdict, and that verdict is one of no_content, false,
\* uncertain, true, mixed.
C6_OrderIndependent ==
    Aggregated =>
        /\ overall \in {S_no_content, S_false, S_uncertain, S_true, S_mixed}
        /\ \A f \in Perms[Len(results)] :
              AggregateVerdicts([i \in 1..Len(results) |-> results[f[i]]])
                  = overall

\* A list whose only "false" item comes first has been aggregated.
C6_Witness ==
    /\ Aggregated
    /\ results = <<OnlyVerdict(S_false), OnlyDetails(S_uncertain),
                   OnlyVerified("True")>>
    /\ overall = S_false

-----------------------------------------------------------------------------
(* Claims about the Result Normalizer, checked under SpecNorm *)

\* The request has been answered, and its type is not audio.
Refined == pc = "done" /\ verification_type # "audio"

\* A fenced block: a fence, with or without the json tag, and a closing
\* fence; or no fence at all (a raw JSON text).
FencePairs ==
    {<<o, c>> : o \in {Fence, Fence \o <<"\n">>, FenceJson \o <<"\n">>},
                c \in {Fence, <<"\n">> \o Fence}}
    \cup {<<(<<>>), (<<>>)>>}

\* Text that needs no further cleaning: stripped, not empty, without
\* verdict prefix or diagnostic phrase.
CleanText(m) ==
    /\ m # <<>>
    /\ Strip(m) = m
    /\ \A i \in 1..Len(VerdictPrefixes) :
          ~StartsWith(LowerStr(m), VerdictPrefixes[i])
    /\ ~StartsWith(m, DiagnosticPhrase)

\* b is the text of a JSON object whose message is clean text.
CleanMessageObject(b) ==
    LET is(p) == /\ p.ok
                 /\ p.val.t = "obj"
                 /\ ObjGet(p.val, K_message).t = "str"
                 /\ CleanText(ObjGet(p.val, K_message).s)
    IN  is(ParseJSON(b))

MessageField(b) == ObjGet(ParseJSON(b).val, K_message).s

\* C7: when the candidate message is a raw JSON object or a fenced block,
\* with or without a json language tag, whose content parses as a JSON
\* object with a non-empty message field, the output is exactly that
\* field's value.
C7_JsonUnwrap ==
    Refined =>
        \A fp \in FencePairs, b \in JsonBodies :
            (best_msg = fp[1] \o b \o fp[2] /\ CleanMessageObject(b))
                => (status = 200 /\ final_message = MessageField(b))

\* C8: the normalizer never raises: every candidate message yields a
\* display string, a text json.loads rejects is returned verbatim, and no
\* input ends the request in HTTP 500.
C8_NeverRaises ==
    Refined =>
        /\ status = 200
        /\ (json_tried /\ ~ParseJSON(FenceStripped(best_msg)).ok)
              => final_message = best_msg

\* C9: a non-empty candidate that starts neither with { nor with a fence,
\* and with no verdict prefix or diagnostic phrase, is returned unchanged
\* and no JSON unwrapping is attempted.
C9_ProseUnchanged ==
    (Refined /\ CleanText(best_msg) /\ ~StartsWith(best_msg, <<"{">>)
        /\ ~StartsWith(best_msg, Fence))
        => (status = 200 /\ ~json_tried /\ final_message = best_msg)

TheSkyIsBlue ==
    <<"T","h","e"," ","s","k","y"," ","i","s"," ","b","l","u","e",".">>

\* "The sky is blue." has been normalized to itself.
C9_Witness ==
    /\ Refined
    /\ best_msg = TheSkyIsBlue
    /\ final_message = TheSkyIsBlue
    /\ ~json_tried

\* C10: if the text obtained after JSON unwrapping starts, compared
\* case-insensitively, with one of the verdict prefixes, the output is the
\* rest of the text without that prefix and without the whitespace around
\* it (or the generic sentence when that rest is the audio diagnostic).
C10_PrefixStripped ==
    (Refined /\ extracted_message.t = "str") =>
        \A i \in 1..Len(VerdictPrefixes) :
            LET cut(ext, n) ==
                    (n <= Len(ext) /\ LowerStr(SubSeq(ext, 1, n)) = VerdictPrefixes[i])
                        => \E rest \in {Strip(SubSeq(ext, n + 1, Len(ext)))} :
                              /\ status = 200
                              /\ final_message =
                                    IF StartsWith(rest, DiagnosticPhrase)
                                    THEN GenericAudioSentence ELSE rest
            IN  cut(Strip(extracted_message.s), Len(VerdictPrefixes[i]))

StagedClaim ==
    <<"T","h","i","s"," ","c","l","a","i","m"," ","i","s"," ","f","a","l",
      "s","e",":"," ","t","h","e"," ","i","m","a","g","e"," ","w","a","s",
      " ","s","t","a","g","e","d">>
StagedRest ==
    <<"t","h","e"," ","i","m","a","g","e"," ","w","a","s"," ","s","t","a",
      "g","e","d">>

\* "This claim is false: the image was staged" has been normalized to
\* "the image was staged".
C10_Witness ==
    /\ Refined
    /\ extracted_message = JStr(StagedClaim)
    /\ final_message = StagedRest

-----------------------------------------------------------------------------
(* Claims about chatbot_verify as a whole, checked under SpecReq and      *)
(* SpecFiles                                                               *)

\* The request has ended, with the response payload of lines 1072-1086.
Answered == pc = "done" /\ response = ResponseFields

\* sub occurs in s.
Contains(s, sub) ==
    \E i \in 1..(Len(s) - Len(sub) + 1) : SubSeq(s, i, i + Len(sub) - 1) = sub

\* C11: the message of a response never begins with the internal phrase
\* "Audio deepfake detection completed", whatever the verification type,
\* audio batches included.
C11_NoDiagnosticLeak ==
    Answered => ~StartsWith(final_message, DiagnosticPhrase)

\* C12: when a sub-step failed with an exception, the text of that
\* exception does not appear in the message of the response.
C12_NoExceptionText ==
    Answered => ~Contains(final_message, ExcText)

ItemRaised ==
    \E j \in 1..Len(calls) :
        calls[j].raised /\ calls[j].item.kind \in {"file", "url"}

\* The k-th file (URL) has been handed to a verifier.
ItemVerified(kind, k) ==
    \E j \in 1..Len(calls) : calls[j].item = Item(kind, k)

\* C14: a verifier that raises on one file or URL never aborts the batch:
\* every file and URL is still verified and the request ends with the
\* normal response, not with HTTP 500.
C14_BatchNotAborted ==
    (pc = "done" /\ ItemRaised) =>
        /\ response = ResponseFields
        /\ \A k \in 1..request.files : ItemVerified("file", k)
        /\ \A k \in 1..Len(request.urls) : ItemVerified("url", k)

\* C15: on every exit path the cleanup list accumulated so far is flushed
\* exactly once, and the path of an uploaded file is in the list when its
\* verifier runs.
C15_FlushedOnce ==
    /\ \A j \in 1..Len(calls) :
          calls[j].item.kind = "file"
              => Upload(calls[j].item.k) \in Range(temp_files_to_cleanup)
    /\ (pc = "done" /\ temp_files_to_cleanup # <<>>)
          => flushes = <<temp_files_to_cleanup>>

\* C16: every temporary directory _extract_media_from_url created is gone
\* by the time the request ends, on all exit paths.
C16_TempDirsGone ==
    pc = "done" => \A p \in disk : ~IsDir(p)

\* C17: every result in results has source text_input, uploaded_file or
\* url, on every dispatch path.
C17_SourceTag ==
    \A i \in 1..Len(results) :
        results[i].source \in {"text_input", "uploaded_file", "url"}

-----------------------------------------------------------------------------
(* Claims about the URL loop, checked under SpecUrls, and about           *)
(* _verify_youtube_video, checked under SpecYT                             *)

\* The URL loop is about to handle a URL of the given kind.
AtUrl(kind) == pc = "urls" /\ request.urls[idx] = kind

\* The calls the step has added to the log.
NewCalls == SubSeq(calls', Len(calls) + 1, Len(calls'))

\* The loop has moved on to the next URL, or past the last one.
MovedOn ==
    /\ status' = 0
    /\ IF idx < Len(request.urls) THEN pc' = "urls" /\ idx' = idx + 1
       ELSE pc' = "flush"

\* C18: the call of _verify_youtube_video never raises and gives a
\* result: verdict "error" with a message that mentions captions when
\* there are no captions, verdict "uncertain" when no claim is extracted;
\* chatbot_verify then goes on with the next URL.
C18_YoutubeDegrades ==
    [][AtUrl("youtube") =>
          /\ Len(NewCalls) = 1
          /\ NewCalls[1].callee = "youtube"
          /\ ~NewCalls[1].raised
          /\ Len(results') = Len(results) + 1
          /\ ~NewCalls[1].met.captions =>
                /\ results'[Len(results')].verdict = Some(S_error)
                /\ Contains(results'[Len(results')].message.s, M_captions)
          /\ (/\ NewCalls[1].met.captions
              /\ ~Raised(NewCalls[1].met.setup)
              /\ NewCalls[1].met.raw_claims = <<>>) =>
                results'[Len(results')].verdict = Some(S_uncertain)
          /\ MovedOn]_vars

\* A video without captions was reported as an error that mentions
\* captions, and the loop is at the second URL.
C18_Witness ==
    /\ pc = "urls"
    /\ idx = 2
    /\ Len(calls) = 1
    /\ calls[1].callee = "youtube"
    /\ ~calls[1].met.captions
    /\ Len(results) = 1
    /\ results[1].verdict = Some(S_error)
    /\ Contains(results[1].message.s, M_captions)

\* The claims of the video: the non-blank raw claims, stripped.
NonBlankClaims(raw) ==
    LET idxs == {i \in 1..Len(raw) : Strip(raw[i]) # <<>>}
        nth(n) == CHOOSE i \in idxs : Cardinality({j \in idxs : j < i}) = n - 1
    IN  [n \in 1..Cardinality(idxs) |-> Strip(raw[nth(n)])]

\* The video had captions and the LLM was set up.
ClaimsChecked ==
    /\ pc = "youtube_done"
    /\ yt_env.captions
    /\ ~Raised(yt_env.setup)

\* C19: the first five claims at most are verified, each yields exactly
\* one entry of claim_results, in claim order; a claim whose verification
\* raises is recorded with verdict "error" and the later claims are still
\* verified and recorded.
C19_ClaimsIsolated ==
    ClaimsChecked =>
        LET claims == NonBlankClaims(yt_env.raw_claims)
            n == IF Len(claims) < 5 THEN Len(claims) ELSE 5
            crs == yt_result[1].val.claim_results
        IN  /\ ~Raised(yt_result[1])
            /\ Len(crs) = n
            /\ \A i \in 1..n :
                  /\ crs[i].claim_text = claims[i]
                  /\ crs[i].claim_index = i
                  /\ IF Raised(yt_env.fate[claims[i]])
                     THEN crs[i].verdict = Some(S_error)
                     ELSE crs[i].verdict = yt_env.fate[claims[i]].val.verdict

\* More than five claims were listed; the first raised and five are
\* recorded, the last of them verified.
C19_Witness ==
    /\ ClaimsChecked
    /\ Len(NonBlankClaims(yt_env.raw_claims)) > 5
    /\ Len(yt_result[1].val.claim_results) = 5
    /\ Raised(yt_env.fate[yt_result[1].val.claim_results[1].claim_text])
    /\ yt_result[1].val.claim_results[1].verdict = Some(S_error)
    /\ yt_result[1].val.claim_results[5].verdict = Some(S_false)

ResolverFailures ==
    {"no_tool", "info_failed", "info_raises", "download_failed", "no_file"}

\* C20: for a URL on a social-media domain the resolver is tried first;
\* when it fails the URL is verified directly, by the image verifier if
\* the declared type is image and by the video verifier otherwise; when
\* it succeeds the verifier of the resolved type is given the local file.
C20_ResolverFirst ==
    [][AtUrl("social") =>
          /\ Len(NewCalls) >= 2
          /\ NewCalls[1].callee = "resolver"
          /\ NewCalls[1].met \in ResolverFailures =>
                /\ Len(NewCalls) = 2
                /\ NewCalls[2].arg = "url"
                /\ NewCalls[2].callee =
                      IF verification_type = "image" THEN "image" ELSE "video"
          /\ NewCalls[1].met \notin ResolverFailures =>
                /\ NewCalls[2].arg = "path"
                /\ NewCalls[2].callee = NewCalls[1].met]_vars

\* A URL declared as video was resolved to an image and went to the
\* image verifier as a local file.
C20_Witness ==
    /\ verification_type = "video"
    /\ Len(calls) = 2
    /\ calls[1].callee = "resolver"
    /\ calls[1].met = "image"
    /\ calls[2].callee = "image"
    /\ calls[2].arg = "path"
    /\ ~calls[2].raised
    /\ Len(results) = 1

-----------------------------------------------------------------------------
(* Further claims about the Result Normalizer, checked under SpecNorm *)

\* p is the outcome of json.loads: a JSON object with a verdict and
\* without a message (no key, null or the empty string).
VerdictOnlyObject(p) ==
    /\ p.ok
    /\ p.val.t = "obj"
    /\ ObjGet(p.val, K_message) \in {JNull, JStr(<<>>)}
    /\ ObjHas(p.val, K_verdict)

\* "Verdict: {verdict}. {reasoning}" of the object o, the values
\* formatted as an f-string formats them.
VerdictSentence(o) ==
    <<"V","e","r","d","i","c","t",":"," ">> \o PyStr(ObjAt(o, K_verdict))
    \o (IF ~ObjHas(o, K_reasoning)
           \/ ObjAt(o, K_reasoning) \in {JNull, JStr(<<>>)}
        THEN <<>>
        ELSE <<"."," ">> \o PyStr(ObjAt(o, K_reasoning)))

\* C24: when the unwrapped JSON object has no or an empty message field
\* but has a verdict field, the output is "Verdict: {verdict}.
\* {reasoning}", without the ". {reasoning}" part when reasoning is absent
\* or empty.
C24_VerdictSentence ==
    (Refined /\ json_tried) =>
        LET holds(p) ==
                VerdictOnlyObject(p)
                    => (status = 200 /\ final_message = VerdictSentence(p.val))
        IN  holds(ParseJSON(FenceStripped(best_msg)))

\* An object with an empty message, verdict "false" and reasoning
\* "staged" has been normalized to "Verdict: false. staged".
C24_Witness ==
    /\ Refined
    /\ json_tried
    /\ VerdictOnlyObject(ParseJSON(FenceStripped(best_msg)))
    /\ final_message = <<"V","e","r","d","i","c","t",":"," ","f","a","l","s","e","."," ","s","t","a","g","e","d">>

-----------------------------------------------------------------------------
(* Claims about the Response Composer, checked under SpecBatch *)

\* The texts the items carry: every non-empty message and summary,
\* without the whitespace around it.
CarriedTexts(rs) ==
    {Strip(rs[i].message.s) : i \in {j \in 1..Len(rs) : Truthy(rs[j].message)}}
    \cup
    {Strip(rs[i].summary.s) : i \in {j \in 1..Len(rs) : Truthy(rs[j].summary)}}

\* C25: for a request that is not audio, the text handed to the
\* normalizer is the longest non-empty candidate among the message and
\* summary fields of all items: no shorter text is chosen while an item
\* carries a longer message or summary; with no non-empty candidate the
\* final message is empty.
C25_LongestCandidate ==
    Refined =>
        LET texts == CarriedTexts(results) \ {<<>>}
        IN  IF texts = {} THEN best_msg = <<>> /\ final_message = <<>>
            ELSE /\ best_msg \in texts
                 /\ \A t \in texts : Len(t) <= Len(best_msg)

\* The non-empty messages of the results, in results order.
NonEmptyMessages(rs) ==
    LET idxs == {i \in 1..Len(rs) : rs[i].message.present /\ rs[i].message.s # <<>>}
        nth(n) == CHOOSE i \in idxs : Cardinality({j \in idxs : j < i}) = n - 1
    IN  [n \in 1..Cardinality(idxs) |-> rs[nth(n)].message.s]

\* The texts with a blank line between one and the next.
BlankLineJoined(ms) ==
    Concat([i \in 1..Len(ms) |->
               IF i = 1 THEN ms[1] ELSE <<"\n", "\n">> \o ms[i]])

\* C26: when the verification type is audio and there is at least one
\* result, the final message is the non-empty messages of the results, in
\* results order, joined by a blank line, with no JSON unwrapping and no
\* prefix stripping applied to them.
C26_AudioJoined ==
    (pc = "done" /\ verification_type = "audio" /\ results # <<>>) =>
        /\ status = 200
        /\ final_message = BlankLineJoined(NonEmptyMessages(results))

\* An audio batch whose messages are a JSON object and a text with a
\* verdict prefix has been answered with both, as they are.
C26_Witness ==
    /\ pc = "done"
    /\ verification_type = "audio"
    /\ Len(results) = 2
    /\ final_message = <<"{","\"","m","e","s","s","a","g","e","\"",":"," ","\"","x","\"","}","\n","\n","R","e","s","u","l","t",":"," ","h","i">>

\* C30: the Result Normalizer is idempotent over all inputs: applied to
\* its own output it returns that output unchanged, stripping no further
\* prefix and unwrapping no further JSON.
C30_Idempotent ==
    (Refined /\ status = 200) =>
        LET again(n) == ~n.raised /\ n.out = final_message
        IN  again(NormalizeMessage(final_message))

-----------------------------------------------------------------------------
(* Claims about the verdict of a whole request, checked under SpecReq *)

\* _aggregate_verdicts has run on the results of the request.
VerdictComputed == pc = "compose" \/ Answered

\* C27: a results list with an item whose verified is the boolean False
\* has the overall verdict "false", whatever the verdict string of that
\* item: a YouTube URL without captions (verdict "error"), a YouTube URL
\* with no extracted claim (verdict "uncertain") and the failure result
\* of a verifier (verdict "error") each make the verdict of the whole
\* request "false".
C27_FailureCountsAsFalse ==
    (VerdictComputed /\ \E i \in 1..Len(results) : results[i].verified = "False")
        => /\ overall = S_false
           /\ \A i \in 1..Len(results) :
                 results[i].verified = "False" => normalized[i] = S_false

\* A request with a text whose verifier failed, a video without
\* captions and a video without claims has been answered "false".
C27_Witness ==
    /\ Answered
    /\ Len(results) = 3
    /\ results[1].source = "text_input"
    /\ results[1].verdict = Some(S_error)
    /\ results[2].source = "youtube_url"
    /\ results[2].verdict = Some(S_error)
    /\ results[3].source = "youtube_url"
    /\ results[3].verdict = Some(S_uncertain)
    /\ \A i \in 1..3 : results[i].verified = "False"
    /\ overall = S_false

-----------------------------------------------------------------------------
(* Further claims about _verify_youtube_video, checked under SpecYT *)

\* The first of the verdicts false, true, mixed, uncertain that is among
\* vs, else "error".
FirstByPrecedence(vs) ==
    CASE S_false \in vs -> S_false
      [] S_false \notin vs /\ S_true \in vs -> S_true
      [] {S_false, S_true} \cap vs = {} /\ S_mixed \in vs -> S_mixed
      [] {S_false, S_true, S_mixed} \cap vs = {} /\ S_uncertain \in vs -> S_uncertain
      [] OTHER -> S_error

\* C28: when at least one claim was extracted, the verdict of
\* _verify_youtube_video follows from the verdict strings of the claims
\* with the precedence false, true, mixed, uncertain, error, and verified
\* is True exactly when that verdict is "true".
C28_YoutubeVerdictPrecedence ==
    (ClaimsChecked /\ NonBlankClaims(yt_env.raw_claims) # <<>>) =>
        LET r == yt_result[1].val
            vs == {r.claim_results[i].verdict.s : i \in 1..Len(r.claim_results)}
        IN  /\ r.claim_results # <<>>
            /\ r.verdict = Some(FirstByPrecedence(vs))
            /\ r.verified = "True" <=> r.verdict = Some(S_true)
            /\ r.verified \in {"True", "False"}

\* A video with a true and a mixed claim has the verdict "true" and is
\* verified.
C28_Witness ==
    /\ ClaimsChecked
    /\ Len(yt_result[1].val.claim_results) = 2
    /\ yt_result[1].val.claim_results[1].verdict = Some(S_mixed)
    /\ yt_result[1].val.claim_results[2].verdict = Some(S_true)
    /\ yt_result[1].val.verdict = Some(S_true)
    /\ yt_result[1].val.verified = "True"

\* The entries of results with one of the given sources.
EntriesFrom(sources) ==
    Cardinality({i \in 1..Len(results) : results[i].source \in sources})

\* C29: when chatbot_verify ends with a normal response, results holds
\* exactly one entry per uploaded file, exactly one per submitted URL,
\* whichever of the YouTube, resolver and direct paths the URL took, and
\* one entry for the text if and only if the verification type is text
\* and the text is not empty.
C29_OneEntryPerItem ==
    Answered =>
        /\ EntriesFrom({"uploaded_file"}) = request.files
        /\ EntriesFrom({"url", "youtube_url"}) = Len(request.urls)
        /\ EntriesFrom({"text_input"}) =
              IF verification_type = "text" /\ request.text THEN 1 ELSE 0
        /\ Len(results) = request.files + Len(request.urls)
                            + EntriesFrom({"text_input"})

\* A request with a text, a YouTube URL and a social-media URL whose
\* extracted media made the verifier raise, so that the URL itself was
\* verified, has been answered with three entries.
C29_Witness ==
    /\ Answered
    /\ verification_type = "text"
    /\ request.text
    /\ request.urls = <<"youtube", "social">>
    /\ \E j \in 1..Len(calls) : calls[j].arg = "path" /\ calls[j].raised
    /\ Len(results) = 3

-----------------------------------------------------------------------------
(* Claims about the order of processing, checked under SpecReq *)

\* The item chatbot_verify is about to process.
CurrentItem ==
    CASE pc = "text" -> Item("text", 0)
      [] pc = "files" -> Item("file", idx)
      [] pc = "urls" -> Item("url", idx)
      [] OTHER -> Item("none", 0)

\* The place of an item in the order of submission: the text, the files,
\* the URLs.
Rank(item) ==
    CASE item.kind = "text" -> 0
      [] item.kind = "file" -> item.k
      [] item.kind = "url" -> request.files + item.k
      [] OTHER -> request.files + Len(request.urls) + 1

\* The sources a result of the item may carry.
SourcesOf(item) ==
    CASE item.kind = "text" -> {"text_input"}
      [] item.kind = "file" -> {"uploaded_file"}
      [] item.kind = "url" -> {"url", "youtube_url"}
      [] OTHER -> {}

\* Every call made so far is a call for an item before the current one,
\* and each of these items has its entry in results.
EarlierItemsComplete ==
    (pc \in {"text", "files", "urls"}) =>
        /\ \A j \in 1..Len(calls) : Rank(calls[j].item) < Rank(CurrentItem)
        /\ \A i \in 1..Len(results) :
              \E it \in {Item("text", 0)}
                        \cup {Item("file", k) : k \in 1..request.files}
                        \cup {Item("url", k) : k \in 1..Len(request.urls)} :
                  /\ Rank(it) < Rank(CurrentItem)
                  /\ results[i].source \in SourcesOf(it)
        /\ pc = "files" => EntriesFrom({"uploaded_file"}) = idx - 1
        /\ pc = "urls" => /\ EntriesFrom({"uploaded_file"}) = request.files
                          /\ EntriesFrom({"url", "youtube_url"}) = idx - 1

\* A step makes calls for the current item alone, puts the result of
\* that item behind the results of the earlier items, and goes on to the
\* next item in the order of submission.
StepInOrder ==
    /\ Len(calls') >= Len(calls)
    /\ SubSeq(calls', 1, Len(calls)) = calls
    /\ \A j \in 1..Len(NewCalls) : NewCalls[j].item = CurrentItem
    /\ Len(results') >= Len(results)
    /\ SubSeq(results', 1, Len(results)) = results
    /\ \A i \in (Len(results) + 1)..Len(results') :
          results'[i].source \in SourcesOf(CurrentItem)
    /\ (pc' = pc /\ pc \in {"files", "urls"}) => idx' = idx + 1

\* C22: within one request the items are processed strictly one after
\* the other, each with all its calls before the next begins, and the
\* order of results is the processing order, which is the submission
\* order of the files and of the URLs.
C22_Sequential == []EarlierItemsComplete /\ [][StepInOrder]_vars

\* A file and then a social-media URL have been processed: the call for
\* the file, the resolver and the verifier of the media, in this order,
\* and the results in the same order.
C22_Witness ==
    /\ Answered
    /\ request.files = 1
    /\ Len(calls) = 3
    /\ calls[1].item = Item("file", 1)
    /\ calls[2].item = Item("url", 1) /\ calls[2].callee = "resolver"
    /\ calls[3].item = Item("url", 1) /\ calls[3].arg = "path"
    /\ Len(results) = 2
    /\ results[1].source = "uploaded_file"
    /\ results[2].source = "url"

-----------------------------------------------------------------------------
(* Claims about the Media Type Resolver, checked under SpecResolve *)

\* The extension is in neither allow-list.
Inconclusive(i) ==
    ClassifyMedia([ext |-> i.ext, formats |-> <<[vcodec |-> "avc1", acodec |-> "none"]>>]).type
        = "video"
    /\ ClassifyMedia([ext |-> i.ext, formats |-> <<>>]).type = "image"

\* Some format of the info carries a video codec, some format an audio codec.
SomeVideoCodec(i) == \E k \in 1..Len(i.formats) : i.formats[k].vcodec # "none"
SomeAudioCodec(i) == \E k \in 1..Len(i.formats) : i.formats[k].acodec # "none"

\* C23: when the extension is inconclusive, a video codec in any format makes
\* the type video, no audio and no video codec in any format makes it image,
\* every remaining case (an audio codec only) makes it video, and the format
\* preference of the download is the one of the type returned.
C23_Classification ==
    (pc = "classified" /\ Inconclusive(info)) =>
        LET m == extracted_media[1]
            expected == IF SomeVideoCodec(info) THEN "video"
                        ELSE IF ~SomeAudioCodec(info) THEN "image"
                        ELSE "video"
        IN  /\ m.type = expected
            /\ m.format = (IF m.type = "image" THEN "best"
                           ELSE "best[ext=mp4]/best")

-----------------------------------------------------------------------------
(* Claims about concurrent requests, checked under SpecThreads *)

\* The result request t gets when no other request is in flight: the
\* captions are found exactly when the video has subtitles.
AloneOutcome(t) == ResultWithCaptions(video[t].subs)

\* C21: whatever the interleaving of the caption threads of the requests in
\* flight, every request ends with the result it gets when run alone.
C21_NoInterference ==
    \A t \in 1..MaxThreads :
        thread_pc[t] = "done" => outcome[t] = <<AloneOutcome(t)>>

====
